---- MODULE Spec2Model ----
(***************************************************************************)
(* Shehab-bot: the chat-triggered agent loop.                              *)
(*                                                                         *)
(* The modular handler (src/index.js:62-123) loads the history of the      *)
(* message's context from the module-level map CONVERSATIONS, calls        *)
(* thinkAndAct (src/src/agent/brain.js:192-276), pushes one user and one   *)
(* assistant turn and stores the array back.  JavaScript arrays are        *)
(* objects: CONVERSATIONS holds references, and so does the handler's      *)
(* local `history`; the model keeps them in `heap`.  A handler runs        *)
(* without interruption between two awaits, so one action is the code      *)
(* from one await to the next.                                             *)
(*                                                                         *)
(* Texts are sequences of tokens (a token is a word, a blank, a quote,     *)
(* ...), so that emptiness, trim() and the template strings are computed.  *)
(* null and "" are both the empty sequence: the code only tests them for   *)
(* falsiness.  say() is taken to succeed (delivery is the chat platform's  *)
(* business), so the handler's catch block is not entered.                 *)
(*                                                                         *)
(* The monolithic handler (src/index.js:329-475) is a program of its own   *)
(* with the same store: it calls the model once (chat.sendMessage), runs   *)
(* the tool of a structured call or of a call spelled in the text (the     *)
(* text failsafes), says the result and stores it.  Its state is held in   *)
(* the same variables; SpecV9 is its specification.                        *)
(***************************************************************************)
EXTENDS Integers, Sequences, FiniteSets, TLC

\* ------------------------------------------------------------------ bounds
\* Messages that arrive in one run of Spec.
MaxMsgs == 3
\* Messages that arrive in one run of SpecOne.
MaxOneMsgs == 2
\* Messages that arrive in one run of SpecSeq.
MaxSeqMsgs == 12
\* Messages that arrive in one run of SpecV9.
MaxV9Msgs == 2
\* Messages that arrive in one run of SpecWin.
MaxWinMsgs == 12
\* Messages that arrive in one run of SpecFair.
MaxFairMsgs == 2
MaxV18Msgs == 2
\* Messages that arrive in one run of SpecV18Conc.
MaxRegMsgs == 2
\* Days the schedule loop runs for in one run of SpecSched.
MaxDays == 2
\* Messages that arrive in one run of SpecSched.
MaxSchedMsgs == 1
\* Messages that arrive in one run of SpecV23.
MaxV23Msgs == 2

\* ------------------------------------------------------- program constants
\* src/index.js:78  if (history.length > 20) history = history.slice(history.length - 20)
HistoryWindow == 20

Handlers == {"h1", "h2"}
Threads == {"T1"}
Channels == {"C1"}
Keys == Threads \cup Channels
None == "none"
Undefined == 0
\* The calendar days (what toDateString tells apart), and the value of
\* lastReportDate before the first report: let lastReportDate = "".
Days == 1..MaxDays
NoDate == 0
ArrayIds == 1..(Cardinality(Handlers) + Cardinality(Keys))

SYSTEM_PROMPT == <<"You are Shehab, Senior PM for Core Orbit (Medical LIMS).">>

\* --------------------------------------------------------------- text helpers
Blank == {" ", "\n"}

RECURSIVE TrimStart(_)
TrimStart(s) == IF s # <<>> /\ Head(s) \in Blank THEN TrimStart(Tail(s)) ELSE s

RECURSIVE TrimEnd(_)
TrimEnd(s) ==
    IF s # <<>> /\ s[Len(s)] \in Blank THEN TrimEnd(SubSeq(s, 1, Len(s) - 1)) ELSE s

\* String.prototype.trim
Trim(s) == TrimEnd(TrimStart(s))

\* JavaScript truthiness of a string (or null): only "" and null are falsy.
Truthy(s) == s # <<>>

\* (mutant of OrElse: the default is forgotten)
OrElse_NoDefault(a, b) == a

\* a || b
OrElse(a, b) == IF Truthy(a) THEN a ELSE b

\* formatForSlack, token by token: markdown bold becomes Slack bold, a known
\* user name becomes a mention; every other token is kept.
FormatToken(t) ==
    CASE t = "**Sure**" -> "*Sure*"
      [] t = "Mohab" -> "<@U1>"
      [] OTHER -> t

formatForSlack(text) ==
    IF ~Truthy(text) THEN <<>> ELSE [i \in 1..Len(text) |-> FormatToken(text[i])]

\* ------------------------------------------------------------------ messages
\* An inbound Slack message; ts is unique, the text of the n-th message is <<n>>.
Messages(n) ==
    [ts : {ToString(n)}, thread_ts : {None} \cup Threads, channel : Channels,
     subtype : {None, "bot_message"}, text : {<<ToString(n)>>}, image : BOOLEAN]

NoMessage ==
    [ts |-> "0", thread_ts |-> None, channel |-> None, subtype |-> None,
     text |-> <<>>, image |-> FALSE]

\* (mutant of ContextId: the thread is ignored)
ContextId_Channel(m) == m.channel

\* const contextId = message.thread_ts || message.channel
ContextId(m) == IF m.thread_ts # None THEN m.thread_ts ELSE m.channel

VARIABLES
    CONVERSATIONS,  \* context key -> reference to the stored array, or Undefined
    heap,           \* array reference -> the array's turns
    nmsgs,          \* messages that have arrived
    pc,             \* handler -> the await it is suspended at
    message,        \* handler -> the message it handles
    history,        \* handler -> its local `history` (a reference)
    userInput,      \* handler -> its local `userInput`
    userMessage,    \* handler -> thinkAndAct's `userMessage` (fullInput)
    messages,       \* handler -> thinkAndAct's `messages`
    toolCalls,      \* handler -> thinkAndAct's `toolCalls`
    toolResults,    \* handler -> thinkAndAct's `toolResults`
    response,       \* handler -> the value thinkAndAct returned
    modelCalls,     \* handler -> the model requests it has issued
    executed,       \* handler -> the tool executors it has invoked
    said,           \* handler -> what it has delivered through say()
    appended,       \* context key -> every turn ever pushed for it, in order
    loadedAt,       \* handler -> how many turns had been pushed when it loaded
    textResponse,   \* handler -> its local `textResponse` (monolithic handler)
    finalReply,     \* handler -> its local `finalReply` (monolithic handler)
    call,           \* handler -> the tool function it awaits, and what it returned
    memoryFile,     \* memory.json: a set of <<key, value>> pairs, one per key
    mem,            \* handler -> getOrRegisterUser's `mem` (what it read of memory.json)
    via,            \* handler -> the part of the handler that called the awaited tool
    clock,          \* the server's time: the day and the part of the day
    ticked,         \* the schedule loop has ticked in the present minute
    lastReportDate, \* the day of the last scheduled report (NoDate for "")
    reports,        \* day of the tick -> the await its generateDailyReport is at
    posted          \* the scheduled reports posted: the channel and the day of the post

\* The locals of the monolithic handler (src/index.js:329-475) and memory.json.
v9Vars == <<textResponse, finalReply, call, memoryFile>>

\* The locals the Groq edition of the monolithic handler adds
\* (src/unnamed/part_004:204-402).
v18Vars == <<mem, via>>

\* The locals of the modular handler and of thinkAndAct.
brainVars == <<userInput, userMessage, messages, toolCalls, toolResults, response>>

\* The state of the schedule loop (src/index.js:169, 314-325).
schedVars == <<clock, ticked, lastReportDate, reports, posted>>

vars ==
    <<CONVERSATIONS, heap, nmsgs, pc, message, history, userInput, userMessage,
      messages, toolCalls, toolResults, response, modelCalls, executed, said,
      appended, loadedAt, textResponse, finalReply, call, memoryFile, mem, via,
      clock, ticked, lastReportDate, reports, posted>>

\* No generateDailyReport was started by the tick of that day.
NoReport == [at |-> "none", channelId |-> None]

\* No tool function is awaited.
NoCall == [fn |-> None, args |-> <<>>, out |-> {}, result |-> <<>>]

\* The turns stored for a context key (CONVERSATIONS[key] || []).
Stored(k) == IF CONVERSATIONS[k] = Undefined THEN <<>> ELSE heap[CONVERSATIONS[k]]

\* Arrays nothing refers to any more are collected.
Collect(hp, conv, hist) ==
    [a \in ArrayIds |->
        IF a \in {conv[k] : k \in Keys} \cup {hist[h] : h \in Handlers}
        THEN hp[a] ELSE <<>>]

\* A fresh array reference.
NewArray ==
    CHOOSE a \in ArrayIds :
        /\ a \notin {CONVERSATIONS[k] : k \in Keys} \cup {history[h] : h \in Handlers}
        /\ \A b \in ArrayIds :
              b \notin {CONVERSATIONS[k] : k \in Keys} \cup {history[h] : h \in Handlers}
                  => a <= b

Init ==
    /\ CONVERSATIONS = [k \in Keys |-> Undefined]
    /\ heap = [a \in ArrayIds |-> <<>>]
    /\ nmsgs = 0
    /\ pc = [h \in Handlers |-> "idle"]
    /\ message = [h \in Handlers |-> NoMessage]
    /\ history = [h \in Handlers |-> Undefined]
    /\ userInput = [h \in Handlers |-> <<>>]
    /\ userMessage = [h \in Handlers |-> <<>>]
    /\ messages = [h \in Handlers |-> <<>>]
    /\ toolCalls = [h \in Handlers |-> <<>>]
    /\ toolResults = [h \in Handlers |-> <<>>]
    /\ response = [h \in Handlers |-> <<>>]
    /\ modelCalls = [h \in Handlers |-> <<>>]
    /\ executed = [h \in Handlers |-> <<>>]
    /\ said = [h \in Handlers |-> <<>>]
    /\ appended = [k \in Keys |-> <<>>]
    /\ loadedAt = [h \in Handlers |-> 0]
    /\ textResponse = [h \in Handlers |-> <<>>]
    /\ finalReply = [h \in Handlers |-> <<>>]
    /\ call = [h \in Handlers |-> NoCall]
    /\ memoryFile = {}
    /\ mem = [h \in Handlers |-> {}]
    /\ via = [h \in Handlers |-> None]
    /\ clock = [day |-> 1, time |-> "night"]
    /\ ticked = FALSE
    /\ lastReportDate = NoDate
    /\ reports = [d \in Days |-> NoReport]
    /\ posted = <<>>

\* ------------------------------------------------------------ tool registry
\* (mutant of TOOLS_DEF: get_prs is declared a second time instead of get_commits)
TOOLS_DEF_Duplicate ==
    <<"get_prs", "get_issues", "get_file_tree", "read_file", "create_file",
      "create_ticket", "search_web", "review_pr", "get_prs", "get_commit_diff">>

\* The names of TOOLS_DEF, in declaration order.
TOOLS_DEF ==
    <<"get_prs", "get_issues", "get_file_tree", "read_file", "create_file",
      "create_ticket", "search_web", "review_pr", "get_commits", "get_commit_diff">>

ToolNames == {TOOLS_DEF[i] : i \in 1..Len(TOOLS_DEF)}

\* JSON.parse of a tool call's argument payload: the value, or a SyntaxError.
\* "OBJ" is an object holding the tool's parameters, "EMPTY" is {}, "NULL" is null.
JSONparse(payload) ==
    CASE payload = "{...}" -> [ok |-> TRUE, value |-> "OBJ"]
      [] payload = "{}" -> [ok |-> TRUE, value |-> "EMPTY"]
      [] payload = "null" -> [ok |-> TRUE, value |-> "NULL"]
      [] OTHER -> [ok |-> FALSE, value |-> "EMPTY"]

\* (mutant of ParseArgs: a payload that does not parse leaves no arguments)
ParseArgs_Null(payload) == IF JSONparse(payload).ok THEN JSONparse(payload).value ELSE "NULL"

\* let args = {}; try { args = JSON.parse(...) } catch (e) { args = {} }
ParseArgs(payload) == IF JSONparse(payload).ok THEN JSONparse(payload).value ELSE "EMPTY"

\* What an executor (a function of tools/github, tools/jira, tools/web) can
\* return: its result or the text of its own caught error.  Never empty.
ToolOutputs(fn) == {<<fn, ": ok">>, <<fn, ": failed">>}

\* (mutant of UnknownTool: a name without a case throws)
UnknownTool_Throws(name) == [throws |-> TRUE, fn |-> None, out |-> {}]

\* default: return `Unknown tool: ${name}`
UnknownTool(name) == [throws |-> FALSE, fn |-> None, out |-> {<<"Unknown tool: ", name>>}]

\* executeTool(name, args): the executor it invokes (None when it invokes none),
\* whether it throws, and the texts it can return.
executeTool(name, args) ==
    CASE name = "get_prs" ->
            [throws |-> FALSE, fn |-> "getPullRequests", out |-> ToolOutputs("getPullRequests")]
      [] name = "get_issues" ->
            [throws |-> FALSE, fn |-> "getIssues", out |-> ToolOutputs("getIssues")]
      [] name = "get_file_tree" ->
            [throws |-> FALSE, fn |-> "getFileTree", out |-> ToolOutputs("getFileTree")]
      [] name \in {"read_file", "create_file", "create_ticket", "search_web",
                   "get_commits", "get_commit_diff"} ->
            \* args.path, args.summary, ...: a TypeError when args is null
            IF args = "NULL"
            THEN [throws |-> TRUE, fn |-> None, out |-> {}]
            ELSE LET fn == CASE name = "read_file" -> "readFileContent"
                             [] name = "create_file" -> "createNewFile"
                             [] name = "create_ticket" -> "createJiraTask"
                             [] name = "search_web" -> "searchWeb"
                             [] name = "get_commits" -> "getRecentCommits"
                             [] OTHER -> "getCommitDiff"
                 IN [throws |-> FALSE, fn |-> fn, out |-> ToolOutputs(fn)]
      [] name = "review_pr" ->
            IF args = "NULL" THEN [throws |-> TRUE, fn |-> None, out |-> {}]
            ELSE IF args = "EMPTY"
            THEN [throws |-> FALSE, fn |-> None,
                  out |-> {<<"Error: Could not parse PR number.">>}]
            ELSE [throws |-> FALSE, fn |-> "getPullRequestDiff",
                  out |-> {<<"[CODE DIFF FOR PR]:">> \o d \o <<"INSTRUCTION: Analyze this code">> :
                              d \in ToolOutputs("getPullRequestDiff")}]
      [] OTHER -> UnknownTool(name)

ToolCall(id, name, payload) == [id |-> id, name |-> name, arguments |-> payload]

\* ------------------------------------------------------------ model endpoint
ModelError == <<"timeout">>

Reply(content, calls) == [kind |-> "message", content |-> content, tool_calls |-> calls]
Throw == [kind |-> "throw", content |-> <<>>, tool_calls |-> <<>>]
Pending == [kind |-> "pending", content |-> <<>>, tool_calls |-> <<>>]

\* What the first completion can be: a failure, a text (null, blank, markdown),
\* or structured calls (a tool without arguments, a tool whose payload does not
\* parse or parses to null, an unknown tool, two calls in one response).
FirstResponses ==
    {Throw,
     Reply(<<>>, <<>>), Reply(<<" ">>, <<>>), Reply(<<"**Sure**">>, <<>>),
     Reply(<<>>, <<ToolCall("call_1", "get_prs", "{}")>>),
     Reply(<<>>, <<ToolCall("call_1", "read_file", "{oops")>>),
     Reply(<<>>, <<ToolCall("call_1", "read_file", "null")>>),
     Reply(<<>>, <<ToolCall("call_1", "deploy", "{...}")>>),
     Reply(<<>>, <<ToolCall("call_1", "create_ticket", "{...}"),
                   ToolCall("call_2", "get_issues", "{}")>>)}

\* What the second completion can be.
SecondResponses ==
    {Throw, Reply(<<>>, <<>>), Reply(<<"Looks clear!">>, <<>>)}

\* ---------------------------------------------------------- message handler
\* (mutant of LastTurns: the cut is one turn early)
LastTurns_OneMore(turns) == SubSeq(turns, Len(turns) - HistoryWindow, Len(turns))

\* (mutant of LastTurns: the oldest turns are kept)
LastTurns_Oldest(turns) == SubSeq(turns, 1, HistoryWindow)

\* (mutant of LastTurns: nothing is dropped)
LastTurns_All(turns) == turns

\* history.slice(history.length - 20)
LastTurns(turns) == SubSeq(turns, Len(turns) - HistoryWindow + 1, Len(turns))

\* (mutant of V3_Receive: the subtype of the message is not looked at)
V3_Receive_NoFilter(h, m) ==
    /\ pc[h] = "idle"
    /\ nmsgs' = nmsgs + 1
    /\ message' = [message EXCEPT ![h] = m]
    /\ pc' = [pc EXCEPT ![h] = "getUserName"]
    /\ loadedAt' = [loadedAt EXCEPT ![h] = Len(appended[ContextId(m)])]
    /\ IF CONVERSATIONS[ContextId(m)] = Undefined
       THEN /\ history' = [history EXCEPT ![h] = NewArray]
            /\ heap' = [heap EXCEPT ![NewArray] = <<>>]
       ELSE /\ history' = [history EXCEPT ![h] = CONVERSATIONS[ContextId(m)]]
            /\ UNCHANGED heap
    /\ UNCHANGED <<CONVERSATIONS, userInput, userMessage, messages, toolCalls,
                   toolResults, response, modelCalls, executed, said, appended>>
    /\ UNCHANGED v9Vars
    /\ UNCHANGED v18Vars
    /\ UNCHANGED schedVars

\* src/index.js:62-81: the bot filter, contextId and the history load, up to
\* the await of getUserName.
V3_Receive(h, m) ==
    /\ pc[h] = "idle"
    /\ nmsgs' = nmsgs + 1
    /\ IF m.subtype = "bot_message"
       THEN UNCHANGED <<CONVERSATIONS, heap, pc, message, history, loadedAt>>
       ELSE LET contextId == ContextId(m)
                stored == CONVERSATIONS[contextId]
                fresh == NewArray
            IN /\ message' = [message EXCEPT ![h] = m]
               /\ pc' = [pc EXCEPT ![h] = "getUserName"]
               /\ loadedAt' = [loadedAt EXCEPT ![h] = Len(appended[contextId])]
               /\ UNCHANGED CONVERSATIONS
               /\ IF stored = Undefined
                  THEN \* CONVERSATIONS[contextId] || []
                       /\ history' = [history EXCEPT ![h] = fresh]
                       /\ heap' = [heap EXCEPT ![fresh] = <<>>]
                  ELSE IF Len(heap[stored]) > HistoryWindow
                  THEN \* slice() copies
                       /\ history' = [history EXCEPT ![h] = fresh]
                       /\ heap' = [heap EXCEPT ![fresh] = LastTurns(heap[stored])]
                  ELSE /\ history' = [history EXCEPT ![h] = stored]
                       /\ UNCHANGED heap
    /\ UNCHANGED <<userInput, userMessage, messages, toolCalls, toolResults,
                   response, modelCalls, executed, said, appended>>
    /\ UNCHANGED v9Vars
    /\ UNCHANGED v18Vars
    /\ UNCHANGED schedVars

\* safeSay(text): say() unless the text is empty or blank.
safeSay(h, text) ==
    IF ~Truthy(text) \/ ~Truthy(Trim(text))
    THEN said[h]
    ELSE Append(said[h],
                [text |-> formatForSlack(text),
                 thread_ts |-> IF message[h].thread_ts # None
                               THEN message[h].thread_ts ELSE message[h].ts])

\* (mutant of V3_CallBrain: the user turn is pushed on `history` before the call)
V3_CallBrain_Push(h, speakerName) ==
    /\ pc[h] = "getUserName"
    /\ userInput' = [userInput EXCEPT ![h] = message[h].text]
    /\ userMessage' = [userMessage EXCEPT ![h] =
          <<"(User: ", speakerName, ") ">> \o message[h].text]
    /\ heap' = [heap EXCEPT ![history[h]] =
          Append(@, [role |-> "user", content |-> message[h].text])]
    /\ pc' = [pc EXCEPT ![h] = "recallMemory"]
    /\ UNCHANGED <<CONVERSATIONS, nmsgs, message, history, messages, toolCalls, said,
                   toolResults, response, modelCalls, executed, appended, loadedAt>>
    /\ UNCHANGED v9Vars
    /\ UNCHANGED v18Vars
    /\ UNCHANGED schedVars

\* src/index.js:81-109 and brain.js:192-197: getUserName has answered; the
\* vision check; thinkAndAct is entered and awaits recallMemory.
V3_CallBrain(h, speakerName) ==
    /\ pc[h] = "getUserName"
    /\ LET text == message[h].text
           analysis == <<"[IMAGE ANALYSIS]: a screenshot">>
       IN /\ userInput' = [userInput EXCEPT ![h] =
                IF message[h].image
                THEN <<"[Image Analysis]: ">> \o analysis \o <<"\n", "User: ">> \o text
                ELSE text]
          /\ said' = [said EXCEPT ![h] =
                IF message[h].image THEN safeSay(h, <<"Analyzing image...">>) ELSE said[h]]
          /\ userMessage' = [userMessage EXCEPT ![h] =
                <<"(User: ", speakerName, ") ">> \o userInput'[h]]
    /\ pc' = [pc EXCEPT ![h] = "recallMemory"]
    /\ UNCHANGED <<CONVERSATIONS, heap, nmsgs, message, history, messages, toolCalls,
                   toolResults, response, modelCalls, executed, appended, loadedAt>>
    /\ UNCHANGED v9Vars
    /\ UNCHANGED v18Vars
    /\ UNCHANGED schedVars

\* ------------------------------------------------------------- thinkAndAct
\* (mutant of BrainError: the catch block returns nothing)
BrainError_Empty(msg) == <<>>

\* `Brain Error: ${error.message}`
BrainError(msg) == <<"Brain Error: ">> \o msg

NullTypeError == <<"Cannot read properties of null">>

\* One pass of the loop body up to its await: the arguments are parsed and
\* executeTool is called.
Invocation(toolCall) == executeTool(toolCall.name, ParseArgs(toolCall.arguments))

\* (mutant of LoopCalls: the loop goes through the calls a second time)
LoopCalls_Twice(calls) == calls \o calls

\* (mutant of LoopCalls: only toolCalls[0] is taken)
LoopCalls_FirstOnly(calls) == <<calls[1]>>

\* for (const toolCall of toolCalls): the calls the loop goes through.
LoopCalls(calls) == calls

\* (mutant of FollowUpMessages: the assistant tool-call turn is left out)
FollowUpMessages_NoAssistant(msgs, calls, results) == msgs \o results

\* const followUpMessages = [...messages, { role: "assistant", tool_calls }, ...toolResults]
FollowUpMessages(msgs, calls, results) ==
    msgs \o <<[role |-> "assistant", tool_calls |-> calls]>> \o results

\* brain.js:197-219: recallMemory has answered; `messages` is built from the
\* array `history` refers to, as it is now; the first completion is requested.
thinkAndAct_Request(h, pastMemories) ==
    /\ pc[h] = "recallMemory"
    /\ LET contextString ==
               IF Truthy(pastMemories)
               THEN <<"[RELEVANT PAST MEMORIES]:">> \o pastMemories
               ELSE <<>>
           msgs == <<[role |-> "system", content |-> SYSTEM_PROMPT]>>
                   \o heap[history[h]]
                   \o <<[role |-> "user", content |-> userMessage[h] \o contextString]>>
       IN /\ messages' = [messages EXCEPT ![h] = msgs]
          /\ modelCalls' = [modelCalls EXCEPT ![h] =
                Append(@, [messages |-> msgs, tools |-> TOOLS_DEF, reply |-> Pending])]
    /\ pc' = [pc EXCEPT ![h] = "firstCall"]
    /\ UNCHANGED <<CONVERSATIONS, heap, nmsgs, message, history, userInput,
                   userMessage, toolCalls, toolResults, response, executed, said,
                   appended, loadedAt>>
    /\ UNCHANGED v9Vars
    /\ UNCHANGED v18Vars
    /\ UNCHANGED schedVars

\* brain.js:221-243 and 272-275: the first completion has answered or failed.
thinkAndAct_FirstReply(h, r) ==
    /\ pc[h] = "firstCall"
    /\ modelCalls' = [modelCalls EXCEPT ![h][1].reply = r]
    /\ IF r.kind = "throw"
       THEN /\ response' = [response EXCEPT ![h] = BrainError(ModelError)]
            /\ pc' = [pc EXCEPT ![h] = "returned"]
            /\ UNCHANGED <<toolCalls, executed>>
       ELSE IF Len(r.tool_calls) = 0
       THEN /\ response' = [response EXCEPT ![h] =
                  OrElse(r.content, <<"I'm not sure how to respond.">>)]
            /\ pc' = [pc EXCEPT ![h] = "returned"]
            /\ UNCHANGED <<toolCalls, executed>>
       ELSE LET inv == Invocation(LoopCalls(r.tool_calls)[1])
            IN /\ toolCalls' = [toolCalls EXCEPT ![h] = r.tool_calls]
               /\ IF inv.throws
                  THEN /\ response' = [response EXCEPT ![h] = BrainError(NullTypeError)]
                       /\ pc' = [pc EXCEPT ![h] = "returned"]
                       /\ UNCHANGED executed
                  ELSE /\ executed' = [executed EXCEPT ![h] =
                             IF inv.fn # None THEN Append(@, inv.fn) ELSE @]
                       /\ pc' = [pc EXCEPT ![h] = "executeTool"]
                       /\ UNCHANGED response
    /\ UNCHANGED <<CONVERSATIONS, heap, nmsgs, message, history, userInput,
                   userMessage, messages, toolResults, said, appended, loadedAt>>
    /\ UNCHANGED v9Vars
    /\ UNCHANGED v18Vars
    /\ UNCHANGED schedVars

\* brain.js:243-263: executeTool has answered with `out`; its result is pushed;
\* the loop goes on to the next call, or the second completion is requested.
thinkAndAct_ToolReturn(h, out) ==
    /\ pc[h] = "executeTool"
    /\ LET i == Len(toolResults[h]) + 1
           calls == LoopCalls(toolCalls[h])
           toolCall == calls[i]
           results == Append(toolResults[h],
                             [role |-> "tool", tool_call_id |-> toolCall.id,
                              name |-> toolCall.name, content |-> out])
       IN /\ out \in Invocation(toolCall).out
          /\ toolResults' = [toolResults EXCEPT ![h] = results]
          /\ IF i < Len(calls)
             THEN LET inv == Invocation(calls[i + 1])
                  IN /\ UNCHANGED modelCalls
                     /\ IF inv.throws
                        THEN /\ response' = [response EXCEPT ![h] = BrainError(NullTypeError)]
                             /\ pc' = [pc EXCEPT ![h] = "returned"]
                             /\ UNCHANGED executed
                        ELSE /\ executed' = [executed EXCEPT ![h] =
                                   IF inv.fn # None THEN Append(@, inv.fn) ELSE @]
                             /\ UNCHANGED <<pc, response>>
             ELSE /\ modelCalls' = [modelCalls EXCEPT ![h] =
                           Append(@, [messages |-> FollowUpMessages(messages[h], toolCalls[h], results),
                                      tools |-> <<>>, reply |-> Pending])]
                     /\ pc' = [pc EXCEPT ![h] = "secondCall"]
                     /\ UNCHANGED <<response, executed>>
    /\ UNCHANGED <<CONVERSATIONS, heap, nmsgs, message, history, userInput,
                   userMessage, messages, toolCalls, said, appended, loadedAt>>
    /\ UNCHANGED v9Vars
    /\ UNCHANGED v18Vars
    /\ UNCHANGED schedVars

\* brain.js:265-275: the second completion has answered or failed.
thinkAndAct_SecondReply(h, r) ==
    /\ pc[h] = "secondCall"
    /\ modelCalls' = [modelCalls EXCEPT ![h][2].reply = r]
    /\ response' = [response EXCEPT ![h] =
           IF r.kind = "throw" THEN BrainError(ModelError)
           ELSE OrElse(r.content, <<"Done.">>)]
    /\ pc' = [pc EXCEPT ![h] = "returned"]
    /\ UNCHANGED <<CONVERSATIONS, heap, nmsgs, message, history, userInput,
                   userMessage, messages, toolCalls, toolResults, executed, said,
                   appended, loadedAt>>
    /\ UNCHANGED v9Vars
    /\ UNCHANGED v18Vars
    /\ UNCHANGED schedVars

\* (mutant of NewTurns: the reply is stored as a tool-result turn)
NewTurns_ToolRole(input, reply) ==
    <<[role |-> "user", content |-> input],
      [role |-> "tool", content |-> OrElse(reply, <<"Done">>)]>>

\* (mutant of NewTurns: the two pushes are swapped)
NewTurns_Swapped(input, reply) ==
    <<[role |-> "assistant", content |-> OrElse(reply, <<"Done">>)],
      [role |-> "user", content |-> input]>>

\* history.push({ role: "user", ... }); history.push({ role: "assistant", ... })
NewTurns(input, reply) ==
    <<[role |-> "user", content |-> input],
      [role |-> "assistant", content |-> OrElse(reply, <<"Done">>)]>>

\* src/index.js:109-117: thinkAndAct has returned; the two turns are pushed on
\* the array `history` refers to, the array is stored, the reply is said.
V3_UpdateHistory(h) ==
    /\ pc[h] = "returned"
    /\ LET contextId == ContextId(message[h])
           turns == NewTurns(userInput[h], response[h])
           pushed == [heap EXCEPT ![history[h]] = @ \o turns]
           conv == [CONVERSATIONS EXCEPT ![contextId] = history[h]]
       IN /\ CONVERSATIONS' = conv
          /\ heap' = Collect(pushed, conv, history)
          /\ appended' = [appended EXCEPT ![contextId] = @ \o turns]
    /\ said' = [said EXCEPT ![h] = safeSay(h, response[h])]
    /\ pc' = [pc EXCEPT ![h] = "done"]
    /\ UNCHANGED <<nmsgs, message, history, userInput, userMessage, messages,
                   toolCalls, toolResults, response, modelCalls, executed, loadedAt>>
    /\ UNCHANGED v9Vars
    /\ UNCHANGED v18Vars
    /\ UNCHANGED schedVars

\* src/index.js:123: the handler's promise settles; its locals are dropped.
V3_Done(h) ==
    /\ pc[h] = "done"
    /\ pc' = [pc EXCEPT ![h] = "idle"]
    /\ message' = [message EXCEPT ![h] = NoMessage]
    /\ history' = [history EXCEPT ![h] = Undefined]
    /\ heap' = Collect(heap, CONVERSATIONS, history')
    /\ userInput' = [userInput EXCEPT ![h] = <<>>]
    /\ userMessage' = [userMessage EXCEPT ![h] = <<>>]
    /\ messages' = [messages EXCEPT ![h] = <<>>]
    /\ toolCalls' = [toolCalls EXCEPT ![h] = <<>>]
    /\ toolResults' = [toolResults EXCEPT ![h] = <<>>]
    /\ response' = [response EXCEPT ![h] = <<>>]
    /\ modelCalls' = [modelCalls EXCEPT ![h] = <<>>]
    /\ executed' = [executed EXCEPT ![h] = <<>>]
    /\ said' = [said EXCEPT ![h] = <<>>]
    /\ loadedAt' = [loadedAt EXCEPT ![h] = 0]
    /\ UNCHANGED <<CONVERSATIONS, nmsgs, appended>>
    /\ UNCHANGED v9Vars
    /\ UNCHANGED v18Vars
    /\ UNCHANGED schedVars

\* Every text an executeTool call of the responses `rs` can return.
ToolTexts(rs) ==
    UNION UNION {{Invocation(r.tool_calls[i]).out : i \in 1..Len(r.tool_calls)} : r \in rs}

\* ------------------------------------------- monolithic handler: its tools
\* src/index.js:174-251.  Each function catches its own errors and returns a
\* text: its result or the text of its catch block.  The root of a repository
\* has at least one entry (an empty repository is answered with an error), so
\* the listing of getFileTree has a line.
getPullRequests ==
    {<<"No open PRs.">>, <<"- [PR #7] Add login (Author: ziad)">>,
     <<"GitHub Error: ", "Bad credentials">>}

getIssues ==
    {<<"No open Issues.">>, <<"- [Issue #3] Crash on save (Labels: bug)">>,
     <<"Could not fetch issues.">>}

getFileTree == {<<" - file: README.md", "\n", " - dir: src">>, <<"Could not read file tree.">>}

readFileContent(path) ==
    {<<"const app = express();", "... (truncated)">>, <<"Could not read file: ">> \o path}

createJiraTask(summary) ==
    {<<"Ticket Created: ", "LAB-1", " (<https://jira/browse/", "LAB-1", "|Link>)">>,
     <<"Jira Error: ", "Bad Request">>}

MemoryUpdated(key, value) ==
    <<"Memory Updated! Set '">> \o key \o <<"' to: \"">> \o value \o <<"\"">>

updateProjectMemory(key, value) ==
    {MemoryUpdated(key, value), <<"Failed to update memory: ", "EACCES">>}

\* currentMemory[key] = value
MemoryWrite(file, key, value) == {p \in file : p[1] # key} \cup {<<key, value>>}

\* The tools the handler declares to the model, in declaration order.
functionDeclarations ==
    <<"get_prs", "get_issues", "get_file_tree", "read_file", "create_ticket", "update_memory">>

\* The function a tool name leads to, with its arguments, the texts it can
\* return and the progress notice said before it is called.
ToolFunction(name, args, native) ==
    CASE name = "get_prs" ->
            [fn |-> "getPullRequests", args |-> <<>>, out |-> getPullRequests,
             notice |-> IF native THEN <<"Checking PRs...">>
                        ELSE <<"(Auto-Fix) Checking GitHub...">>]
      [] name = "get_issues" ->
            [fn |-> "getIssues", args |-> <<>>, out |-> getIssues,
             notice |-> IF native THEN <<"Checking Issue Backlog...">>
                        ELSE <<"(Auto-Fix) Checking Issues...">>]
      [] name = "get_file_tree" ->
            [fn |-> "getFileTree", args |-> <<>>, out |-> getFileTree,
             notice |-> IF native THEN <<"Scanning file structure...">>
                        ELSE <<"(Auto-Fix) Scanning file structure...">>]
      [] name = "read_file" ->
            [fn |-> "readFileContent", args |-> <<args[1]>>, out |-> readFileContent(args[1]),
             notice |-> (IF native THEN <<"Reading ">> ELSE <<"(Auto-Fix) Reading ">>)
                        \o args[1] \o <<"...">>]
      [] name = "create_ticket" ->
            [fn |-> "createJiraTask", args |-> <<args[1]>>, out |-> createJiraTask(args[1]),
             notice |-> IF native THEN <<"Creating Ticket...">>
                        ELSE <<"(Auto-Fix) Creating task: \"">> \o args[1] \o <<"\"...">>]
      [] name = "update_memory" ->
            [fn |-> "updateProjectMemory", args |-> <<args[1], args[2]>>,
             out |-> updateProjectMemory(args[1], args[2]),
             notice |-> IF native THEN <<"Saving...">>
                        ELSE <<"(Auto-Fix) Updating ">> \o args[1] \o <<"...">>]
      [] OTHER -> [fn |-> None, args |-> <<>>, out |-> {}, notice |-> <<>>]

\* ------------------------------------- monolithic handler: the text failsafes
\* String.prototype.includes, for a needle that is one token.
Includes(text, token) == \E i \in 1..Len(text) : text[i] = token

\* String.prototype.toLowerCase, token by token.
ToLowerCase(text) ==
    [i \in 1..Len(text) |->
        CASE text[i] = "Set Report Channel" -> "set report channel"
          [] text[i] = "Run Daily Report" -> "run daily report"
          [] OTHER -> text[i]]

Quotes == {"\"", "'"}

Min(S) == CHOOSE x \in S : \A y \in S : x <= y

\* The token at position i, None beyond the ends.
At(s, i) == IF i >= 1 /\ i <= Len(s) THEN s[i] ELSE None

\* \s* from position i: the position of the first token that is not a blank.
RECURSIVE SkipBlanks(_, _)
SkipBlanks(s, i) == IF i <= Len(s) /\ s[i] \in Blank THEN SkipBlanks(s, i + 1) ELSE i

\* `.` matches every character but a line break.
NoLineBreak(s, a, b) == \A j \in a..b : s[j] # "\n"

NoMatch == [ok |-> FALSE, groups |-> <<>>]

\* \s*["'](.*?)["']\s*\)  from position i: the group is as short as it can be.
OneArg(s, i) ==
    LET k == SkipBlanks(s, i)
        ends == {e \in (k + 1)..Len(s) :
                    /\ s[e] \in Quotes
                    /\ NoLineBreak(s, k + 1, e - 1)
                    /\ At(s, SkipBlanks(s, e + 1)) = ")"}
    IN IF At(s, k) \in Quotes /\ ends # {}
       THEN [ok |-> TRUE, groups |-> <<SubSeq(s, k + 1, Min(ends) - 1)>>]
       ELSE NoMatch

\* \s*["'](.*?)["']\s*,\s*["'](.*?)["']\s*\)  from position i.
TwoArgs(s, i) ==
    LET k == SkipBlanks(s, i)
        comma(e) == SkipBlanks(s, e + 1)
        ends == {e \in (k + 1)..Len(s) :
                    /\ s[e] \in Quotes
                    /\ NoLineBreak(s, k + 1, e - 1)
                    /\ At(s, comma(e)) = ","
                    /\ OneArg(s, comma(e) + 1).ok}
    IN IF At(s, k) \in Quotes /\ ends # {}
       THEN [ok |-> TRUE,
             groups |-> <<SubSeq(s, k + 1, Min(ends) - 1)>>
                        \o OneArg(s, comma(Min(ends)) + 1).groups]
       ELSE NoMatch

\* text.match(/name\s*\(<arguments>\)/): the leftmost match.
Match(s, name, arity) ==
    LET at(i) ==
            IF s[i] = name /\ At(s, SkipBlanks(s, i + 1)) = "("
            THEN IF arity = 1 THEN OneArg(s, SkipBlanks(s, i + 1) + 1)
                 ELSE TwoArgs(s, SkipBlanks(s, i + 1) + 1)
            ELSE NoMatch
        starts == {i \in 1..Len(s) : at(i).ok}
    IN IF starts = {} THEN NoMatch ELSE at(Min(starts))

\* (mutant of Failsafe: the names are tested in the order they are declared)
Failsafe_DeclaredOrder(text) ==
    LET tool(name, args) == [hit |-> TRUE, name |-> name, args |-> args]
        none == [hit |-> FALSE, name |-> None, args |-> <<>>]
        quoted(name, arity) ==
            IF Match(text, name, arity).ok
            THEN tool(name, Match(text, name, arity).groups) ELSE none
    IN IF Includes(text, "get_prs") THEN tool("get_prs", <<>>)
       ELSE IF Includes(text, "get_issues") THEN tool("get_issues", <<>>)
       ELSE IF Includes(text, "get_file_tree") THEN tool("get_file_tree", <<>>)
       ELSE IF Includes(text, "read_file") THEN quoted("read_file", 1)
       ELSE IF Includes(text, "create_ticket") THEN quoted("create_ticket", 1)
       ELSE IF Includes(text, "update_memory") THEN quoted("update_memory", 2)
       ELSE none

\* src/index.js:423-466: the branch the text of the response takes.  hit: a
\* tool is called with the extracted arguments; otherwise the text is said.
Failsafe(text) ==
    LET tool(name, args) == [hit |-> TRUE, name |-> name, args |-> args]
        none == [hit |-> FALSE, name |-> None, args |-> <<>>]
        quoted(name, arity) ==
            IF Match(text, name, arity).ok
            THEN tool(name, Match(text, name, arity).groups) ELSE none
    IN CASE Includes(text, "get_file_tree") -> tool("get_file_tree", <<>>)
         [] ~Includes(text, "get_file_tree") /\ Includes(text, "get_issues") ->
                tool("get_issues", <<>>)
         [] OTHER ->
                IF Includes(text, "read_file") THEN quoted("read_file", 1)
                ELSE IF Includes(text, "create_ticket") THEN quoted("create_ticket", 1)
                ELSE IF Includes(text, "update_memory") THEN quoted("update_memory", 2)
                ELSE IF Includes(text, "get_prs") THEN tool("get_prs", <<>>)
                ELSE none

\* ------------------------------------------ monolithic handler: its steps
\* safeSay of the monolithic handler: say(text) unless the text is empty or blank.
V9_safeSay(h, text) ==
    IF ~Truthy(text) \/ Trim(text) = <<>>
    THEN said[h]
    ELSE Append(said[h], [text |-> text, thread_ts |-> None])

V9_UserTurn(text) == [role |-> "user", parts |-> text]

\* (mutant of V9_ModelTurn: the acknowledgement is stored whatever the reply)
V9_ModelTurn_Done(reply) == [role |-> "model", parts |-> <<"Done">>]

\* { role: "model", parts: [{ text: finalReply || "Done" }] }
V9_ModelTurn(reply) == [role |-> "model", parts |-> OrElse(reply, <<"Done">>)]

\* src/index.js:329-381: the bot filter, the two commands, the history load
\* and the request of chat.sendMessage.
V9_Receive(h, m) ==
    /\ pc[h] = "idle"
    /\ nmsgs' = nmsgs + 1
    /\ IF m.subtype = "bot_message"
       THEN UNCHANGED <<CONVERSATIONS, heap, pc, message, history, loadedAt, modelCalls,
                        executed, said, memoryFile>>
       ELSE IF Includes(ToLowerCase(m.text), "set report channel")
       THEN \* updateProjectMemory writes synchronously; its result is not looked at
            /\ \E o \in updateProjectMemory(<<"report_channel">>, <<m.channel>>) :
                  memoryFile' =
                      IF o = MemoryUpdated(<<"report_channel">>, <<m.channel>>)
                      THEN MemoryWrite(memoryFile, <<"report_channel">>, <<m.channel>>)
                      ELSE memoryFile
            /\ message' = [message EXCEPT ![h] = m]
            /\ executed' = [executed EXCEPT ![h] =
                   <<[fn |-> "updateProjectMemory",
                      args |-> <<<<"report_channel">>, <<m.channel>>>>]>>]
            /\ said' = [said EXCEPT ![h] =
                   Append(@, [text |-> <<"Reports set to this channel (#", m.channel, ").">>,
                              thread_ts |-> None])]
            /\ pc' = [pc EXCEPT ![h] = "done"]
            /\ UNCHANGED <<CONVERSATIONS, heap, history, loadedAt, modelCalls>>
       ELSE IF Includes(ToLowerCase(m.text), "run daily report")
       THEN \* generateDailyReport: the three tools are called together
            /\ message' = [message EXCEPT ![h] = m]
            /\ said' = [said EXCEPT ![h] =
                   Append(@, [text |-> <<"Scanning Repo & Generating Report...">>,
                              thread_ts |-> None])]
            /\ executed' = [executed EXCEPT ![h] =
                   <<[fn |-> "getPullRequests", args |-> <<>>],
                     [fn |-> "getIssues", args |-> <<>>],
                     [fn |-> "getFileTree", args |-> <<>>]>>]
            /\ pc' = [pc EXCEPT ![h] = "Promise.all"]
            /\ UNCHANGED <<CONVERSATIONS, heap, history, loadedAt, modelCalls, memoryFile>>
       ELSE LET contextId == ContextId(m)
                stored == CONVERSATIONS[contextId]
                fresh == NewArray
                turns == IF stored = Undefined THEN <<>>
                         ELSE IF Len(heap[stored]) > HistoryWindow
                         THEN LastTurns(heap[stored])
                         ELSE heap[stored]
            IN /\ message' = [message EXCEPT ![h] = m]
               /\ loadedAt' = [loadedAt EXCEPT ![h] = Len(appended[contextId])]
               /\ IF stored = Undefined \/ Len(turns) # Len(heap[stored])
                  THEN /\ history' = [history EXCEPT ![h] = fresh]
                       /\ heap' = [heap EXCEPT ![fresh] = turns]
                  ELSE /\ history' = [history EXCEPT ![h] = stored]
                       /\ UNCHANGED heap
               \* startChat({ history: [SYSTEM_PROMPT, ...history], tools }) and sendMessage
               /\ modelCalls' = [modelCalls EXCEPT ![h] =
                      <<[api |-> "sendMessage", memory |-> memoryFile, history |-> turns,
                         message |-> m.text, tools |-> functionDeclarations,
                         reply |-> Pending]>>]
               /\ pc' = [pc EXCEPT ![h] = "sendMessage"]
               /\ UNCHANGED <<CONVERSATIONS, executed, said, memoryFile>>
    /\ UNCHANGED <<appended, textResponse, finalReply, call>>
    /\ UNCHANGED brainVars
    /\ UNCHANGED v18Vars
    /\ UNCHANGED schedVars

\* The tool function `f` is called: updateProjectMemory writes memory.json
\* before it returns, the others answer later.
V9_CallTool(h, f) ==
    /\ executed' = [executed EXCEPT ![h] = Append(@, [fn |-> f.fn, args |-> f.args])]
    /\ said' = [said EXCEPT ![h] = V9_safeSay(h, f.notice)]
    /\ pc' = [pc EXCEPT ![h] = "tool"]
    /\ UNCHANGED finalReply
    /\ IF f.fn = "updateProjectMemory"
       THEN \E o \in f.out :
               /\ call' = [call EXCEPT ![h] =
                      [fn |-> f.fn, args |-> f.args, out |-> {o}, result |-> <<>>]]
               /\ memoryFile' =
                      IF o = MemoryUpdated(f.args[1], f.args[2])
                      THEN MemoryWrite(memoryFile, f.args[1], f.args[2])
                      ELSE memoryFile
       ELSE /\ call' = [call EXCEPT ![h] =
                   [fn |-> f.fn, args |-> f.args, out |-> f.out, result |-> <<>>]]
            /\ UNCHANGED memoryFile

\* (mutant of V9_SayText: an acknowledgement is said in place of the text)
V9_SayText_Done(h, reply, text) ==
    /\ finalReply' = [finalReply EXCEPT ![h] = reply]
    /\ said' = [said EXCEPT ![h] = V9_safeSay(h, <<"Done.">>)]
    /\ pc' = [pc EXCEPT ![h] = "safeSay"]
    /\ UNCHANGED <<executed, call, memoryFile>>

\* No tool is called: `text` is said and is the final reply.
V9_SayText(h, reply, text) ==
    /\ finalReply' = [finalReply EXCEPT ![h] = reply]
    /\ said' = [said EXCEPT ![h] = V9_safeSay(h, text)]
    /\ pc' = [pc EXCEPT ![h] = "safeSay"]
    /\ UNCHANGED <<executed, call, memoryFile>>

\* src/index.js:381-466 and 471-474: chat.sendMessage has answered or failed.
\* The user turn is pushed; the structured call, else the text failsafes, else
\* the plain reply.
V9_Reply(h, r) ==
    /\ pc[h] = "sendMessage"
    /\ modelCalls' = [modelCalls EXCEPT ![h][1].reply = r]
    /\ IF r.kind = "throw"
       THEN /\ said' = [said EXCEPT ![h] = V9_safeSay(h, <<"System Error: ">> \o ModelError)]
            /\ pc' = [pc EXCEPT ![h] = "done"]
            /\ UNCHANGED <<heap, appended, textResponse, finalReply, executed, call,
                           memoryFile>>
       ELSE /\ textResponse' = [textResponse EXCEPT ![h] = r.content]
            /\ heap' = [heap EXCEPT ![history[h]] = Append(@, V9_UserTurn(message[h].text))]
            /\ appended' = [appended EXCEPT ![ContextId(message[h])] =
                   Append(@, V9_UserTurn(message[h].text))]
            /\ IF r.tool_calls # <<>>
               THEN \* parts.find(p => p.functionCall)
                    LET functionCall == r.tool_calls[1]
                        f == ToolFunction(functionCall.name, functionCall.args, TRUE)
                    IN IF f.fn # None
                       THEN V9_CallTool(h, f)
                       ELSE V9_SayText(h, r.content, r.content)
               ELSE LET found == Failsafe(r.content)
                    IN IF found.hit
                       THEN V9_CallTool(h, ToolFunction(found.name, found.args, FALSE))
                       ELSE IF \E i \in 1..Len(functionDeclarations) :
                                  Includes(r.content, functionDeclarations[i])
                       THEN V9_SayText(h, r.content, r.content)
                       ELSE V9_SayText(h, r.content, OrElse(r.content, <<"Done.">>))
    /\ UNCHANGED <<CONVERSATIONS, nmsgs, message, history, loadedAt>>
    /\ UNCHANGED brainVars
    /\ UNCHANGED v18Vars
    /\ UNCHANGED schedVars

\* src/index.js:398-462: the tool function has answered; its text is the final
\* reply and is said.
V9_ToolReturn(h, out) ==
    /\ pc[h] = "tool"
    /\ out \in call[h].out
    /\ call' = [call EXCEPT ![h].result = out]
    /\ finalReply' = [finalReply EXCEPT ![h] = out]
    /\ said' = [said EXCEPT ![h] = V9_safeSay(h, out)]
    /\ pc' = [pc EXCEPT ![h] = "safeSay"]
    /\ UNCHANGED <<CONVERSATIONS, heap, nmsgs, message, history, modelCalls, executed,
                   appended, loadedAt, textResponse, memoryFile>>
    /\ UNCHANGED brainVars
    /\ UNCHANGED v18Vars
    /\ UNCHANGED schedVars

\* src/index.js:468-469: the last safeSay has resolved; the model turn is
\* pushed and the array is stored.
V9_UpdateHistory(h) ==
    /\ pc[h] = "safeSay"
    /\ LET contextId == ContextId(message[h])
           pushed == [heap EXCEPT ![history[h]] = Append(@, V9_ModelTurn(finalReply[h]))]
           conv == [CONVERSATIONS EXCEPT ![contextId] = history[h]]
       IN /\ CONVERSATIONS' = conv
          /\ heap' = Collect(pushed, conv, history)
          /\ appended' = [appended EXCEPT ![contextId] =
                 Append(@, V9_ModelTurn(finalReply[h]))]
    /\ pc' = [pc EXCEPT ![h] = "done"]
    /\ UNCHANGED <<nmsgs, message, history, modelCalls, executed, said, loadedAt>>
    /\ UNCHANGED v9Vars
    /\ UNCHANGED brainVars
    /\ UNCHANGED v18Vars
    /\ UNCHANGED schedVars

\* src/index.js:258-296: the three tools of the daily report have answered;
\* the report is requested from the model.
V9_ReportPrompt(h, prs, issues, files) ==
    /\ pc[h] = "Promise.all"
    /\ modelCalls' = [modelCalls EXCEPT ![h] =
           <<[api |-> "generateContent", memory |-> memoryFile, history |-> <<>>,
              message |-> prs \o issues \o files, tools |-> <<>>, reply |-> Pending]>>]
    /\ pc' = [pc EXCEPT ![h] = "generateContent"]
    /\ UNCHANGED <<CONVERSATIONS, heap, nmsgs, message, history, executed, said,
                   appended, loadedAt>>
    /\ UNCHANGED v9Vars
    /\ UNCHANGED brainVars
    /\ UNCHANGED v18Vars
    /\ UNCHANGED schedVars

\* src/index.js:296-311: the report has been generated and is posted, or the
\* failure is logged.
V9_ReportPost(h, r) ==
    /\ pc[h] = "generateContent"
    /\ modelCalls' = [modelCalls EXCEPT ![h][1].reply = r]
    /\ said' = [said EXCEPT ![h] =
           IF r.kind = "throw" THEN @
           ELSE Append(@, [text |-> <<"Morning Team! Here is today's plan:">> \o r.content,
                           thread_ts |-> None])]
    /\ pc' = [pc EXCEPT ![h] = "done"]
    /\ UNCHANGED <<CONVERSATIONS, heap, nmsgs, message, history, executed, appended,
                   loadedAt>>
    /\ UNCHANGED v9Vars
    /\ UNCHANGED brainVars
    /\ UNCHANGED v18Vars
    /\ UNCHANGED schedVars

\* src/index.js:475: the handler's promise settles; its locals are dropped.
V9_Done(h) ==
    /\ pc[h] = "done"
    /\ pc' = [pc EXCEPT ![h] = "idle"]
    /\ message' = [message EXCEPT ![h] = NoMessage]
    /\ history' = [history EXCEPT ![h] = Undefined]
    /\ heap' = Collect(heap, CONVERSATIONS, history')
    /\ modelCalls' = [modelCalls EXCEPT ![h] = <<>>]
    /\ executed' = [executed EXCEPT ![h] = <<>>]
    /\ said' = [said EXCEPT ![h] = <<>>]
    /\ loadedAt' = [loadedAt EXCEPT ![h] = 0]
    /\ textResponse' = [textResponse EXCEPT ![h] = <<>>]
    /\ finalReply' = [finalReply EXCEPT ![h] = <<>>]
    /\ call' = [call EXCEPT ![h] = NoCall]
    /\ UNCHANGED <<CONVERSATIONS, nmsgs, appended, memoryFile>>
    /\ UNCHANGED brainVars
    /\ UNCHANGED v18Vars
    /\ UNCHANGED schedVars

\* ----------------------- monolithic handler, Groq edition: JSON in the text
\* A text that holds JSON is a sequence of tokens as well: "{", "}", ",", the
\* blanks, a key with its quotes and colon as one token ("\"name\":"), a
\* string as the tokens between two "\"" tokens, and the word null.
JsonKeys ==
    {"name", "parameters", "arguments", "summary", "key", "value", "path", "query"}

KeyToken(k) == "\"" \o k \o "\":"

IsKeyToken(t) == \E k \in JsonKeys : KeyToken(k) = t

KeyName(t) == CHOOSE k \in JsonKeys : KeyToken(k) = t

\* The values JSON.parse builds, and undefined.
JsonString(text) == [type |-> "string", text |-> text, members |-> <<>>]

JsonObject(members) == [type |-> "object", text |-> <<>>, members |-> members]

JsonNull == [type |-> "null", text |-> <<>>, members |-> <<>>]

JsonUndefined == [type |-> "undefined", text |-> <<>>, members |-> <<>>]

SyntaxError == [ok |-> FALSE, value |-> JsonUndefined, next |-> 0]

\* A string from its opening quote at position k: up to the next quote.
ParseString(s, k, closing) ==
    IF closing # {} /\ NoLineBreak(s, k + 1, Min(closing) - 1)
    THEN [ok |-> TRUE, value |-> JsonString(SubSeq(s, k + 1, Min(closing) - 1)),
          next |-> Min(closing) + 1]
    ELSE SyntaxError

\* A value from position i: a string, an object or null.
RECURSIVE ParseValue(_, _)
RECURSIVE ParseValueAt(_, _)
RECURSIVE ParseMembers(_, _, _)
RECURSIVE ParseRest(_, _, _, _)

ParseValue(s, i) == ParseValueAt(s, SkipBlanks(s, i))

ParseValueAt(s, k) ==
    CASE At(s, k) = "\"" -> ParseString(s, k, {e \in (k + 1)..Len(s) : s[e] = "\""})
      [] At(s, k) = "null" -> [ok |-> TRUE, value |-> JsonNull, next |-> k + 1]
      [] At(s, k) = "{" ->
            IF At(s, SkipBlanks(s, k + 1)) = "}"
            THEN [ok |-> TRUE, value |-> JsonObject(<<>>), next |-> SkipBlanks(s, k + 1) + 1]
            ELSE ParseMembers(s, SkipBlanks(s, k + 1), <<>>)
      [] OTHER -> SyntaxError

\* The members of an object from position k, a key expected there.
ParseMembers(s, k, acc) ==
    IF ~IsKeyToken(At(s, k)) THEN SyntaxError
    ELSE ParseRest(s, acc, KeyName(s[k]), ParseValue(s, k + 1))

\* The member of key `key` has the value v: a comma and the next member, or
\* the closing brace.
ParseRest(s, acc, key, v) ==
    IF ~v.ok THEN SyntaxError
    ELSE IF At(s, SkipBlanks(s, v.next)) = ","
    THEN ParseMembers(s, SkipBlanks(s, SkipBlanks(s, v.next) + 1),
                      Append(acc, [key |-> key, value |-> v.value]))
    ELSE IF At(s, SkipBlanks(s, v.next)) = "}"
    THEN [ok |-> TRUE, value |-> JsonObject(Append(acc, [key |-> key, value |-> v.value])),
          next |-> SkipBlanks(s, v.next) + 1]
    ELSE SyntaxError

\* Nothing but blanks may follow the value.
WholeText(text, v) == IF v.ok /\ SkipBlanks(text, v.next) > Len(text) THEN v ELSE SyntaxError

\* JSON.parse(text): one value, blanks around it, nothing else.
JSONparseText(text) == WholeText(text, ParseValue(text, 1))

\* value.key: the last member of that key; undefined when there is none or
\* when the value is not an object.
Get(v, key) ==
    IF \A i \in 1..Len(v.members) : v.members[i].key # key THEN JsonUndefined
    ELSE v.members[CHOOSE i \in 1..Len(v.members) :
                      /\ v.members[i].key = key
                      /\ \A j \in (i + 1)..Len(v.members) : v.members[j].key # key].value

\* JavaScript truthiness of a parsed value.
TruthyValue(v) == v.type = "object" \/ (v.type = "string" /\ v.text # <<>>)

\* (mutant of Params: the arguments are always taken from the object itself)
Params_Whole(raw) == raw

\* raw.parameters || raw.arguments || raw
Params(raw) ==
    IF TruthyValue(Get(raw, "parameters")) THEN Get(raw, "parameters")
    ELSE IF TruthyValue(Get(raw, "arguments")) THEN Get(raw, "arguments")
    ELSE raw

\* A parsed value as a text (`${value}`).
ArgText(v) ==
    CASE v.type = "string" -> v.text
      [] v.type = "object" -> <<"[object Object]">>
      [] v.type = "null" -> <<"null">>
      [] OTHER -> <<"undefined">>

\* raw.name === name
Named(raw, name) == Get(raw, "name") = JsonString(<<name>>)

\* ------------------------------ monolithic handler, Groq edition: the tools
\* src/unnamed/part_004:204-224: the entry of a user in memory.json (mem.users).
UserKey(userId) == <<"users", userId>>

Registered(file, userId) == \E p \in file : p[1] = UserKey(userId) /\ Truthy(p[2])

NameOf(file, userId) == (CHOOSE p \in file : p[1] = UserKey(userId))[2]

\* users.info: the real name of the user, or a failure.
UsersInfoError == [ok |-> FALSE, real_name |-> <<>>]

UsersInfo == {[ok |-> TRUE, real_name |-> <<"Ziad">>], UsersInfoError}

\* part_004:51-69: formatForSlack also turns the name of a registered user
\* into a mention; memory.json is read when the text is said.
UserMention(t, file) ==
    IF \E p \in file : Len(p[1]) = 2 /\ p[1][1] = "users" /\ p[2] = <<t>>
    THEN "<@" \o (CHOOSE p \in file : Len(p[1]) = 2 /\ p[1][1] = "users" /\ p[2] = <<t>>)[1][2]
         \o ">"
    ELSE t

V18_formatForSlack(text, file) ==
    IF ~Truthy(text) THEN <<>>
    ELSE [i \in 1..Len(text) |-> FormatToken(UserMention(text[i], file))]

\* part_004:230-233: safeSay, after what has been said so far.
V18_safeSay(sofar, text, file) ==
    IF ~Truthy(text) \/ Trim(text) = <<>>
    THEN sofar
    ELSE Append(sofar, [text |-> V18_formatForSlack(text, file), thread_ts |-> None])

\* JSON.stringify(mem): the members in some order, a key as one token.
RECURSIVE Stringify(_)
Stringify(file) ==
    IF file = {} THEN <<>>
    ELSE LET p == CHOOSE q \in file : TRUE
         IN <<"\"" \o p[1][Len(p[1])] \o "\":", "\"">> \o p[2] \o <<"\"">>
            \o (IF file = {p} THEN <<>> ELSE <<",">>) \o Stringify(file \ {p})

\* part_004:96-112: memory.json is read from the disk, any other path from
\* GitHub.
V18_readFileContent(path, file) ==
    IF Includes(path, "memory.json")
    THEN {<<"{">> \o Stringify(file) \o <<"}">>, <<"Memory file is empty or missing.">>}
    ELSE readFileContent(path)

\* No tool function is called.
NoFunction == [fn |-> None, args |-> <<>>, out |-> {}, notice |-> <<>>, drop |-> FALSE]

\* part_004:298-331: the structured call.  `parsed` is what JSON.parse made of
\* the payload: an object with the declared properties, the empty object or
\* null.  `throws` is "before" when reading a property of null throws before
\* anything is said, "after" when the throw comes after the progress notice.
V18_Native(name, parsed, file) ==
    LET path == IF parsed = "OBJ" THEN <<"src/app.js">> ELSE <<"undefined">>
        summary == IF parsed = "OBJ" THEN <<"Fix login bug">> ELSE <<"undefined">>
        key == IF parsed = "OBJ" THEN <<"deadline">> ELSE <<"undefined">>
        value == IF parsed = "OBJ" THEN <<"Friday">> ELSE <<"undefined">>
        f == ToolFunction(name, <<>>, TRUE)
    IN CASE name \in {"get_prs", "get_issues", "get_file_tree"} ->
               [throws |-> None,
                f |-> [fn |-> f.fn, args |-> <<>>, out |-> f.out, notice |-> f.notice,
                       drop |-> FALSE]]
         [] name = "read_file" ->
               IF parsed = "NULL" THEN [throws |-> "before", f |-> NoFunction]
               ELSE [throws |-> IF parsed = "EMPTY" THEN "after" ELSE None,
                     f |-> [fn |-> "readFileContent", args |-> <<path>>,
                            out |-> IF parsed = "EMPTY" THEN {}
                                    ELSE V18_readFileContent(path, file),
                            notice |-> <<"Reading ">> \o path \o <<"...">>,
                            drop |-> FALSE]]
         [] name = "create_ticket" ->
               IF parsed = "NULL"
               THEN [throws |-> "after",
                     f |-> [NoFunction EXCEPT !.notice = <<"Creating Ticket...">>]]
               ELSE [throws |-> None,
                     f |-> [fn |-> "createJiraTask", args |-> <<summary>>,
                            out |-> createJiraTask(summary),
                            notice |-> <<"Creating Ticket...">>, drop |-> FALSE]]
         [] name = "update_memory" ->
               IF parsed = "NULL"
               THEN [throws |-> "after", f |-> [NoFunction EXCEPT !.notice = <<"Saving...">>]]
               ELSE [throws |-> None,
                     f |-> [fn |-> "updateProjectMemory", args |-> <<key, value>>,
                            out |-> updateProjectMemory(key, value),
                            notice |-> <<"Saving...">>, drop |-> parsed = "EMPTY"]]
         [] OTHER -> [throws |-> None, f |-> NoFunction]

\* updateProjectMemory(params.key, params.value), as the JSON test calls it.
V18_JsonUpdateMemory(key, value) ==
    [fn |-> "updateProjectMemory", args |-> <<ArgText(key), ArgText(value)>>,
     out |-> updateProjectMemory(ArgText(key), ArgText(value)),
     notice |-> <<"(Auto-Fix) Updating Memory...">>, drop |-> value.type = "undefined"]

\* createJiraTask(params.summary), as the JSON test calls it.
V18_JsonCreateTicket(summary) ==
    [fn |-> "createJiraTask", args |-> <<ArgText(summary)>>,
     out |-> createJiraTask(ArgText(summary)),
     notice |-> <<"(Auto-Fix) Creating Ticket...">>, drop |-> FALSE]

\* part_004:342-355: update_memory and create_ticket are the names looked for
\* in the parsed object.
V18_JsonDispatch(raw, params) ==
    IF Named(raw, "update_memory")
    THEN V18_JsonUpdateMemory(Get(params, "key"), Get(params, "value"))
    ELSE IF Named(raw, "create_ticket") THEN V18_JsonCreateTicket(Get(params, "summary"))
    ELSE NoFunction

\* (mutant of V18_JsonParsed: a text that does not parse is taken for a ticket)
V18_JsonParsed_Guess(parsed) ==
    IF parsed.ok THEN V18_JsonDispatch(parsed.value, Params(parsed.value))
    ELSE V18_JsonCreateTicket(JsonUndefined)

V18_JsonParsed(parsed) ==
    IF parsed.ok THEN V18_JsonDispatch(parsed.value, Params(parsed.value)) ELSE NoFunction

\* part_004:338-356: a reply that starts with { and holds "name": is parsed.
\* A text that does not parse, or names something else, is left to what
\* follows.
V18_JsonCall(text) ==
    IF /\ Truthy(text)
       /\ Trim(text) # <<>>
       /\ Trim(text)[1] = "{"
       /\ Includes(text, KeyToken("name"))
    THEN V18_JsonParsed(JSONparseText(text))
    ELSE NoFunction

\* part_004:357-391: the branch the names in the reply lead to.
V18_Failsafe(text) ==
    LET tool(name, args) == [hit |-> TRUE, name |-> name, args |-> args]
        none == [hit |-> FALSE, name |-> None, args |-> <<>>]
        quoted(name) ==
            IF Match(text, name, 1).ok THEN tool(name, Match(text, name, 1).groups) ELSE none
    IN IF Includes(text, "get_file_tree") THEN tool("get_file_tree", <<>>)
       ELSE IF Includes(text, "get_issues") THEN tool("get_issues", <<>>)
       ELSE IF Includes(text, "read_file") THEN quoted("read_file")
       ELSE IF Includes(text, "create_ticket") THEN quoted("create_ticket")
       ELSE IF Includes(text, "get_prs") THEN tool("get_prs", <<>>)
       ELSE none

\* The function a failsafe branch calls.
V18_FailsafeFunction(found, f, file) ==
    [fn |-> f.fn, args |-> f.args,
     out |-> IF found.name = "read_file" THEN V18_readFileContent(found.args[1], file)
             ELSE f.out,
     notice |-> f.notice, drop |-> FALSE]

V18_FailsafeFound(found, file) ==
    V18_FailsafeFunction(found, ToolFunction(found.name, found.args, FALSE), file)

V18_FailsafeCall(text, file) == V18_FailsafeFound(V18_Failsafe(text), file)

\* part_004:336-392: what the handler does next with its reply `text`, from
\* the JSON test ("json") or from the tests of the names ("names") on:
\* it calls a tool function, says the text, or has nothing left to do.
NothingLeft == [kind |-> "end", via |-> None, f |-> NoFunction]

V18_PlanWith(from, text, hasToolCalls, json, found, file) ==
    IF ~Truthy(text) THEN NothingLeft
    ELSE IF from = "json" /\ json.fn # None
    THEN [kind |-> "call", via |-> "json", f |-> json]
    ELSE IF hasToolCalls THEN NothingLeft
    ELSE IF found.hit
    THEN [kind |-> "call", via |-> "names", f |-> V18_FailsafeFound(found, file)]
    ELSE [kind |-> "say", via |-> None, f |-> NoFunction]

V18_Plan(from, text, hasToolCalls, file) ==
    V18_PlanWith(from, text, hasToolCalls, V18_JsonCall(text), V18_Failsafe(text), file)

\* ------------------------------- monolithic handler, Groq edition: the steps
V18_UserTurn(text) == [role |-> "user", content |-> text]

\* { role: "assistant", content: finalReply || "Done" }
V18_AssistantTurn(reply) == [role |-> "assistant", content |-> OrElse(reply, <<"Done">>)]

\* src/unnamed/part_004:227-252 and 204-209: the bot filter, the two commands,
\* the history load, and getOrRegisterUser up to its await: memory.json is read.
V18_Receive(h, m) ==
    /\ pc[h] = "idle"
    /\ nmsgs' = nmsgs + 1
    /\ IF m.subtype = "bot_message"
       THEN UNCHANGED <<CONVERSATIONS, heap, pc, message, history, loadedAt, executed,
                        said, memoryFile, mem>>
       ELSE IF Includes(ToLowerCase(m.text), "set report channel")
       THEN /\ \E o \in updateProjectMemory(<<"report_channel">>, <<m.channel>>) :
                  /\ memoryFile' =
                         IF o = MemoryUpdated(<<"report_channel">>, <<m.channel>>)
                         THEN MemoryWrite(memoryFile, <<"report_channel">>, <<m.channel>>)
                         ELSE memoryFile
                  /\ said' = [said EXCEPT ![h] =
                         V18_safeSay(@, <<"Reports set to this channel (#", m.channel, ").">>,
                                     memoryFile')]
            /\ message' = [message EXCEPT ![h] = m]
            /\ executed' = [executed EXCEPT ![h] =
                   <<[fn |-> "updateProjectMemory",
                      args |-> <<<<"report_channel">>, <<m.channel>>>>]>>]
            /\ pc' = [pc EXCEPT ![h] = "done"]
            /\ UNCHANGED <<CONVERSATIONS, heap, history, loadedAt, mem>>
       ELSE IF Includes(ToLowerCase(m.text), "run daily report")
       THEN /\ message' = [message EXCEPT ![h] = m]
            /\ said' = [said EXCEPT ![h] =
                   V18_safeSay(@, <<"Scanning Repo & Generating Report...">>, memoryFile)]
            /\ executed' = [executed EXCEPT ![h] =
                   <<[fn |-> "getPullRequests", args |-> <<>>],
                     [fn |-> "getIssues", args |-> <<>>],
                     [fn |-> "getFileTree", args |-> <<>>]>>]
            /\ pc' = [pc EXCEPT ![h] = "Promise.all"]
            /\ UNCHANGED <<CONVERSATIONS, heap, history, loadedAt, memoryFile, mem>>
       ELSE LET contextId == ContextId(m)
                stored == CONVERSATIONS[contextId]
                fresh == NewArray
                turns == IF stored = Undefined THEN <<>>
                         ELSE IF Len(heap[stored]) > HistoryWindow
                         THEN LastTurns(heap[stored])
                         ELSE heap[stored]
            IN /\ message' = [message EXCEPT ![h] = m]
               /\ loadedAt' = [loadedAt EXCEPT ![h] = Len(appended[contextId])]
               /\ IF stored = Undefined \/ Len(turns) # Len(heap[stored])
                  THEN /\ history' = [history EXCEPT ![h] = fresh]
                       /\ heap' = [heap EXCEPT ![fresh] = turns]
                  ELSE /\ history' = [history EXCEPT ![h] = stored]
                       /\ UNCHANGED heap
               /\ mem' = [mem EXCEPT ![h] = memoryFile]
               /\ pc' = [pc EXCEPT ![h] = "getOrRegisterUser"]
               /\ UNCHANGED <<CONVERSATIONS, executed, said, memoryFile>>
    /\ UNCHANGED <<appended, modelCalls, textResponse, finalReply, call, via>>
    /\ UNCHANGED brainVars
    /\ UNCHANGED schedVars

\* part_004:209-223 and 252-288: getOrRegisterUser returns the name it read,
\* or users.info has answered with `info` and the name is written into what
\* was read of memory.json, or users.info has failed; memory.json is read
\* again for the system message and the completion is requested.
V18_Request(h, info) ==
    /\ pc[h] = "getOrRegisterUser"
    /\ LET userId == message[h].user
           known == Registered(mem[h], userId)
           speakerName == IF known THEN NameOf(mem[h], userId)
                          ELSE IF ~info.ok THEN <<"Unknown User">> ELSE info.real_name
           file == IF ~known /\ info.ok
                   THEN MemoryWrite(mem[h], UserKey(userId), info.real_name)
                   ELSE memoryFile
       IN /\ known => info = UsersInfoError
          /\ memoryFile' = file
          /\ modelCalls' = [modelCalls EXCEPT ![h] =
                 <<[api |-> "create", memory |-> file, speaker |-> speakerName,
                    history |-> heap[history[h]], message |-> message[h].text,
                    tools |-> functionDeclarations, reply |-> Pending]>>]
    /\ pc' = [pc EXCEPT ![h] = "create"]
    /\ UNCHANGED <<CONVERSATIONS, heap, nmsgs, message, history, executed, said,
                   appended, loadedAt, textResponse, finalReply, call, mem, via>>
    /\ UNCHANGED brainVars
    /\ UNCHANGED schedVars

\* The next thing the handler does after it has said `sofar` and a tool
\* function has returned `result` (if one has): it says the progress notice
\* and calls a tool function (updateProjectMemory writes memory.json before
\* it returns), or says its reply, or goes on to the update of the history.
V18_Proceed(h, plan, sofar, result) ==
    IF plan.kind = "call"
    THEN /\ executed' = [executed EXCEPT ![h] =
                Append(@, [fn |-> plan.f.fn, args |-> plan.f.args])]
         /\ said' = [said EXCEPT ![h] = V18_safeSay(sofar, plan.f.notice, memoryFile)]
         /\ via' = [via EXCEPT ![h] = plan.via]
         /\ pc' = [pc EXCEPT ![h] = "tool"]
         /\ IF plan.f.fn = "updateProjectMemory"
            THEN \E o \in plan.f.out :
                    /\ call' = [call EXCEPT ![h] =
                           [fn |-> plan.f.fn, args |-> plan.f.args, out |-> {o},
                            result |-> <<>>]]
                    /\ memoryFile' =
                           IF o # MemoryUpdated(plan.f.args[1], plan.f.args[2])
                           THEN memoryFile
                           ELSE IF plan.f.drop
                           THEN {q \in memoryFile : q[1] # plan.f.args[1]}
                           ELSE MemoryWrite(memoryFile, plan.f.args[1], plan.f.args[2])
            ELSE /\ call' = [call EXCEPT ![h] =
                        [fn |-> plan.f.fn, args |-> plan.f.args, out |-> plan.f.out,
                         result |-> <<>>]]
                 /\ UNCHANGED memoryFile
    ELSE /\ said' = [said EXCEPT ![h] =
                IF plan.kind = "say" THEN V18_safeSay(sofar, finalReply'[h], memoryFile)
                ELSE sofar]
         /\ call' = [call EXCEPT ![h].result = result]
         /\ pc' = [pc EXCEPT ![h] = "safeSay"]
         /\ UNCHANGED <<executed, via, memoryFile>>

\* catch (error): the error is said; nothing is pushed or stored any more.
V18_SystemError(h, sofar, msg) ==
    /\ said' = [said EXCEPT ![h] = V18_safeSay(sofar, <<"System Error: ">> \o msg, memoryFile)]
    /\ pc' = [pc EXCEPT ![h] = "done"]
    /\ UNCHANGED <<call, via, memoryFile>>

UnexpectedToken == <<"Unexpected token">>

UndefinedTypeError == <<"Cannot read properties of undefined">>

\* part_004:290-401: the completion has answered or failed.  The user turn is
\* pushed.  With structured calls the first one is taken: its payload is
\* parsed (no try around it) and its tool function is called; a name without
\* a branch says the reply.  Without structured calls the reply goes through
\* the failsafes; when there is no reply either, the assistant turn is pushed
\* and the array is stored at once.
V18_Reply(h, r) ==
    /\ pc[h] = "create"
    /\ modelCalls' = [modelCalls EXCEPT ![h][1].reply = r]
    /\ IF r.kind = "throw"
       THEN /\ V18_SystemError(h, said[h], ModelError)
            /\ UNCHANGED <<CONVERSATIONS, heap, appended, finalReply, executed>>
       ELSE LET contextId == ContextId(message[h])
                user == V18_UserTurn(message[h].text)
                pushed == [heap EXCEPT ![history[h]] = Append(@, user)]
            IN IF r.tool_calls # <<>>
               THEN LET toolCall == r.tool_calls[1]
                        parsed == JSONparse(toolCall.arguments)
                        native == V18_Native(toolCall.name, parsed.value, memoryFile)
                    IN /\ heap' = pushed
                       /\ appended' = [appended EXCEPT ![contextId] = Append(@, user)]
                       /\ finalReply' = [finalReply EXCEPT ![h] = r.content]
                       /\ UNCHANGED CONVERSATIONS
                       /\ IF ~parsed.ok
                          THEN /\ V18_SystemError(h, said[h], UnexpectedToken)
                               /\ UNCHANGED executed
                          ELSE IF native.throws = "before"
                          THEN /\ V18_SystemError(h, said[h], NullTypeError)
                               /\ UNCHANGED executed
                          ELSE IF native.throws = "after" /\ native.f.fn = None
                          THEN /\ V18_SystemError(h,
                                      V18_safeSay(said[h], native.f.notice, memoryFile),
                                      NullTypeError)
                               /\ UNCHANGED executed
                          ELSE IF native.throws = "after"
                          THEN \* readFileContent(undefined) throws
                               /\ V18_SystemError(h,
                                      V18_safeSay(said[h], native.f.notice, memoryFile),
                                      UndefinedTypeError)
                               /\ executed' = [executed EXCEPT ![h] =
                                      Append(@, [fn |-> native.f.fn, args |-> native.f.args])]
                          ELSE IF native.f.fn # None
                          THEN V18_Proceed(h, [kind |-> "call", via |-> "native",
                                               f |-> native.f], said[h], <<>>)
                          ELSE \* await safeSay(finalReply), then the JSON test
                               V18_Proceed(h, V18_Plan("json", r.content, TRUE, memoryFile),
                                           V18_safeSay(said[h], r.content, memoryFile), <<>>)
               ELSE IF ~Truthy(r.content)
               THEN LET turns == <<user, V18_AssistantTurn(r.content)>>
                        conv == [CONVERSATIONS EXCEPT ![contextId] = history[h]]
                    IN /\ CONVERSATIONS' = conv
                       /\ heap' = Collect([heap EXCEPT ![history[h]] = @ \o turns],
                                          conv, history)
                       /\ appended' = [appended EXCEPT ![contextId] = @ \o turns]
                       /\ finalReply' = [finalReply EXCEPT ![h] = r.content]
                       /\ pc' = [pc EXCEPT ![h] = "done"]
                       /\ UNCHANGED <<said, executed, call, via, memoryFile>>
               ELSE /\ heap' = pushed
                    /\ appended' = [appended EXCEPT ![contextId] = Append(@, user)]
                    /\ finalReply' = [finalReply EXCEPT ![h] = r.content]
                    /\ UNCHANGED CONVERSATIONS
                    /\ V18_Proceed(h, V18_Plan("json", r.content, FALSE, memoryFile), said[h],
                                   <<>>)
    /\ UNCHANGED <<nmsgs, message, history, loadedAt, textResponse, mem>>
    /\ UNCHANGED brainVars
    /\ UNCHANGED schedVars

\* part_004:305-392: the tool function has answered; its text is the reply and
\* is said.  After a structured call the JSON test follows; after the JSON
\* test the tests of the names follow, on the text the tool returned; after
\* those, the update of the history.
V18_ToolReturn(h, out) ==
    /\ pc[h] = "tool"
    /\ out \in call[h].out
    /\ finalReply' = [finalReply EXCEPT ![h] = out]
    /\ LET sofar == V18_safeSay(said[h], out, memoryFile)
           hasToolCalls == modelCalls[h][1].reply.tool_calls # <<>>
       IN V18_Proceed(h,
                      IF via[h] = "native" THEN V18_Plan("json", out, hasToolCalls, memoryFile)
                      ELSE IF via[h] = "json"
                      THEN V18_Plan("names", out, hasToolCalls, memoryFile)
                      ELSE NothingLeft,
                      sofar, out)
    /\ UNCHANGED <<CONVERSATIONS, heap, nmsgs, message, history, modelCalls, appended,
                   loadedAt, textResponse, mem>>
    /\ UNCHANGED brainVars
    /\ UNCHANGED schedVars

\* part_004:394-396: the last safeSay has resolved; the assistant turn is
\* pushed and the array is stored.
V18_UpdateHistory(h) ==
    /\ pc[h] = "safeSay"
    /\ LET contextId == ContextId(message[h])
           turn == V18_AssistantTurn(finalReply[h])
           pushed == [heap EXCEPT ![history[h]] = Append(@, turn)]
           conv == [CONVERSATIONS EXCEPT ![contextId] = history[h]]
       IN /\ CONVERSATIONS' = conv
          /\ heap' = Collect(pushed, conv, history)
          /\ appended' = [appended EXCEPT ![contextId] = Append(@, turn)]
    /\ pc' = [pc EXCEPT ![h] = "done"]
    /\ UNCHANGED <<nmsgs, message, history, modelCalls, executed, said, loadedAt>>
    /\ UNCHANGED v9Vars
    /\ UNCHANGED brainVars
    /\ UNCHANGED v18Vars
    /\ UNCHANGED schedVars

\* part_004:142-169: the three tools of the daily report have answered; the
\* report is requested from the model.
V18_ReportPrompt(h, prs, issues, files) ==
    /\ pc[h] = "Promise.all"
    /\ modelCalls' = [modelCalls EXCEPT ![h] =
           <<[api |-> "report", memory |-> memoryFile, speaker |-> <<>>, history |-> <<>>,
              message |-> prs \o issues \o files, tools |-> <<>>, reply |-> Pending]>>]
    /\ pc' = [pc EXCEPT ![h] = "report"]
    /\ UNCHANGED <<CONVERSATIONS, heap, nmsgs, message, history, executed, said,
                   appended, loadedAt>>
    /\ UNCHANGED v9Vars
    /\ UNCHANGED brainVars
    /\ UNCHANGED v18Vars
    /\ UNCHANGED schedVars

\* getGreeting: by the hour of the day.
Greetings == {<<"Good Morning">>, <<"Good Afternoon">>, <<"Good Evening">>}

\* part_004:170-187: the report has been generated and is posted with the
\* greeting, or the failure is logged.
V18_ReportPost(h, r, greeting) ==
    /\ pc[h] = "report"
    /\ modelCalls' = [modelCalls EXCEPT ![h][1].reply = r]
    /\ r.kind = "throw" => greeting = <<"Good Morning">>
    /\ said' = [said EXCEPT ![h] =
           IF r.kind = "throw" THEN @
           ELSE Append(@, [text |-> greeting \o <<" Team! Here is the plan:">>
                                    \o V18_formatForSlack(r.content, memoryFile),
                           thread_ts |-> None])]
    /\ pc' = [pc EXCEPT ![h] = "done"]
    /\ UNCHANGED <<CONVERSATIONS, heap, nmsgs, message, history, executed, appended,
                   loadedAt>>
    /\ UNCHANGED v9Vars
    /\ UNCHANGED brainVars
    /\ UNCHANGED v18Vars
    /\ UNCHANGED schedVars

\* part_004:402: the handler's promise settles; its locals are dropped.
V18_Done(h) ==
    /\ pc[h] = "done"
    /\ pc' = [pc EXCEPT ![h] = "idle"]
    /\ message' = [message EXCEPT ![h] = NoMessage]
    /\ history' = [history EXCEPT ![h] = Undefined]
    /\ heap' = Collect(heap, CONVERSATIONS, history')
    /\ modelCalls' = [modelCalls EXCEPT ![h] = <<>>]
    /\ executed' = [executed EXCEPT ![h] = <<>>]
    /\ said' = [said EXCEPT ![h] = <<>>]
    /\ loadedAt' = [loadedAt EXCEPT ![h] = 0]
    /\ finalReply' = [finalReply EXCEPT ![h] = <<>>]
    /\ call' = [call EXCEPT ![h] = NoCall]
    /\ mem' = [mem EXCEPT ![h] = {}]
    /\ via' = [via EXCEPT ![h] = None]
    /\ UNCHANGED <<CONVERSATIONS, nmsgs, appended, textResponse, memoryFile>>
    /\ UNCHANGED brainVars
    /\ UNCHANGED schedVars

\* ----------------------------------- monolithic handler, autonomous edition
\* src/unnamed/part_000:119-126: searchWeb catches its own errors.
searchWeb(query) ==
    {<<"No results found.">>, <<"Title: FHIR overview", "\n", "Link: https://hl7.org/fhir">>,
     <<"Search Error: ", "timeout">>}

\* src/unnamed/part_000:131-139.
TOOLS_DEFINITION == functionDeclarations \o <<"search_web">>

\* part_000:276-298: the structured call.  search_web reads args.query for
\* its notice before anything is said; the other branches are those of the
\* Groq edition.
V23_Native(name, parsed, file) ==
    IF name = "search_web"
    THEN IF parsed = "NULL" THEN [throws |-> "before", f |-> NoFunction]
         ELSE LET query == IF parsed = "OBJ" THEN <<"HL7 FHIR">> ELSE <<"undefined">>
              IN [throws |-> None,
                  f |-> [fn |-> "searchWeb", args |-> <<query>>, out |-> searchWeb(query),
                         notice |-> <<"Searching: \"">> \o query \o <<"\"...">>,
                         drop |-> FALSE]]
    ELSE V18_Native(name, parsed, file)

\* searchWeb(params.query), as the JSON test calls it.
V23_JsonSearch(query) ==
    [fn |-> "searchWeb", args |-> <<ArgText(query)>>, out |-> searchWeb(ArgText(query)),
     notice |-> <<"(Auto-Fix) Searching...">>, drop |-> FALSE]

\* part_000:307-310: update_memory and search_web are the names looked for in
\* the parsed object.
V23_JsonDispatch(raw, params) ==
    IF Named(raw, "update_memory")
    THEN V18_JsonUpdateMemory(Get(params, "key"), Get(params, "value"))
    ELSE IF Named(raw, "search_web") THEN V23_JsonSearch(Get(params, "query"))
    ELSE NoFunction

V23_JsonParsed(parsed) ==
    IF parsed.ok THEN V23_JsonDispatch(parsed.value, Params(parsed.value)) ELSE NoFunction

\* part_000:304-311: a reply that starts with { and holds "name": is parsed; a
\* text that does not parse, or names something else, is left as it is.
V23_JsonCall(text) ==
    IF /\ Truthy(text)
       /\ Trim(text) # <<>>
       /\ Trim(text)[1] = "{"
       /\ Includes(text, KeyToken("name"))
    THEN V23_JsonParsed(JSONparseText(text))
    ELSE NoFunction

\* part_000:304-312: what the handler does next with its reply `text`: the
\* JSON test calls a tool function, or the reply is said.
V23_PlanWith(json) ==
    IF json.fn # None THEN [kind |-> "call", via |-> "json", f |-> json]
    ELSE [kind |-> "say", via |-> None, f |-> NoFunction]

V23_Plan(text) == V23_PlanWith(V23_JsonCall(text))

\* part_000:226-237 and 212-216: the bot filter, the command, the history
\* load, and getOrRegisterUser up to its await: memory.json is read.
V23_Receive(h, m) ==
    /\ pc[h] = "idle"
    /\ nmsgs' = nmsgs + 1
    /\ IF m.subtype = "bot_message"
       THEN UNCHANGED <<CONVERSATIONS, heap, pc, message, history, loadedAt, executed,
                        said, memoryFile, mem>>
       ELSE IF Includes(ToLowerCase(m.text), "set report channel")
       THEN /\ \E o \in updateProjectMemory(<<"report_channel">>, <<m.channel>>) :
                  /\ memoryFile' =
                         IF o = MemoryUpdated(<<"report_channel">>, <<m.channel>>)
                         THEN MemoryWrite(memoryFile, <<"report_channel">>, <<m.channel>>)
                         ELSE memoryFile
                  /\ said' = [said EXCEPT ![h] =
                         V18_safeSay(@, <<"Reports set to this channel.">>, memoryFile')]
            /\ message' = [message EXCEPT ![h] = m]
            /\ executed' = [executed EXCEPT ![h] =
                   <<[fn |-> "updateProjectMemory",
                      args |-> <<<<"report_channel">>, <<m.channel>>>>]>>]
            /\ pc' = [pc EXCEPT ![h] = "done"]
            /\ UNCHANGED <<CONVERSATIONS, heap, history, loadedAt, mem>>
       ELSE LET contextId == ContextId(m)
                stored == CONVERSATIONS[contextId]
                fresh == NewArray
            IN /\ message' = [message EXCEPT ![h] = m]
               /\ loadedAt' = [loadedAt EXCEPT ![h] = Len(appended[contextId])]
               /\ IF stored = Undefined
                  THEN \* CONVERSATIONS[contextId] || []
                       /\ history' = [history EXCEPT ![h] = fresh]
                       /\ heap' = [heap EXCEPT ![fresh] = <<>>]
                  ELSE IF Len(heap[stored]) > HistoryWindow
                  THEN \* slice() copies
                       /\ history' = [history EXCEPT ![h] = fresh]
                       /\ heap' = [heap EXCEPT ![fresh] = LastTurns(heap[stored])]
                  ELSE /\ history' = [history EXCEPT ![h] = stored]
                       /\ UNCHANGED heap
               /\ mem' = [mem EXCEPT ![h] = memoryFile]
               /\ pc' = [pc EXCEPT ![h] = "getOrRegisterUser"]
               /\ UNCHANGED <<CONVERSATIONS, executed, said, memoryFile>>
    /\ UNCHANGED <<appended, modelCalls, textResponse, finalReply, call, via>>
    /\ UNCHANGED brainVars
    /\ UNCHANGED schedVars

\* part_000:212-223 and 237-269: getOrRegisterUser returns the name it read,
\* or users.info has answered with `info` and the name is written into what
\* was read of memory.json, or users.info has failed; `messages` is built from
\* the array `history` refers to and the completion is requested.
V23_Request(h, info) ==
    /\ pc[h] = "getOrRegisterUser"
    /\ LET userId == message[h].user
           known == Registered(mem[h], userId)
           speakerName == IF known THEN NameOf(mem[h], userId)
                          ELSE IF ~info.ok THEN <<"Unknown User">> ELSE info.real_name
           file == IF ~known /\ info.ok
                   THEN MemoryWrite(mem[h], UserKey(userId), info.real_name)
                   ELSE memoryFile
       IN /\ known => info = UsersInfoError
          /\ memoryFile' = file
          /\ modelCalls' = [modelCalls EXCEPT ![h] =
                 <<[api |-> "create", memory |-> file, speaker |-> speakerName,
                    history |-> heap[history[h]], message |-> message[h].text,
                    tools |-> TOOLS_DEFINITION, reply |-> Pending]>>]
    /\ pc' = [pc EXCEPT ![h] = "create"]
    /\ UNCHANGED <<CONVERSATIONS, heap, nmsgs, message, history, executed, said,
                   appended, loadedAt, textResponse, finalReply, call, mem, via>>
    /\ UNCHANGED brainVars
    /\ UNCHANGED schedVars

\* part_000:271-312: the completion has answered or failed.  The user turn is
\* pushed on `history`; then, with structured calls, the payload of the first
\* one is parsed (no try around it) and its tool function is called; a name
\* without a branch says the reply.  Without structured calls the reply goes
\* to the JSON test.
V23_Reply(h, r) ==
    /\ pc[h] = "create"
    /\ modelCalls' = [modelCalls EXCEPT ![h][1].reply = r]
    /\ IF r.kind = "throw"
       THEN /\ V18_SystemError(h, said[h], ModelError)
            /\ UNCHANGED <<heap, appended, finalReply, executed>>
       ELSE LET contextId == ContextId(message[h])
                user == V18_UserTurn(message[h].text)
            IN /\ heap' = [heap EXCEPT ![history[h]] = Append(@, user)]
               /\ appended' = [appended EXCEPT ![contextId] = Append(@, user)]
               /\ finalReply' = [finalReply EXCEPT ![h] = r.content]
               /\ IF r.tool_calls # <<>>
                  THEN LET toolCall == r.tool_calls[1]
                           parsed == JSONparse(toolCall.arguments)
                           native == V23_Native(toolCall.name, parsed.value, memoryFile)
                       IN IF ~parsed.ok
                          THEN /\ V18_SystemError(h, said[h], UnexpectedToken)
                               /\ UNCHANGED executed
                          ELSE IF native.throws = "before"
                          THEN /\ V18_SystemError(h, said[h], NullTypeError)
                               /\ UNCHANGED executed
                          ELSE IF native.throws = "after" /\ native.f.fn = None
                          THEN /\ V18_SystemError(h,
                                      V18_safeSay(said[h], native.f.notice, memoryFile),
                                      NullTypeError)
                               /\ UNCHANGED executed
                          ELSE IF native.throws = "after"
                          THEN \* readFileContent(undefined) throws
                               /\ V18_SystemError(h,
                                      V18_safeSay(said[h], native.f.notice, memoryFile),
                                      UndefinedTypeError)
                               /\ executed' = [executed EXCEPT ![h] =
                                      Append(@, [fn |-> native.f.fn, args |-> native.f.args])]
                          ELSE IF native.f.fn # None
                          THEN V18_Proceed(h, [kind |-> "call", via |-> "native",
                                               f |-> native.f], said[h], <<>>)
                          ELSE \* await safeSay(finalReply), then the JSON test
                               V18_Proceed(h, V23_Plan(r.content),
                                           V18_safeSay(said[h], r.content, memoryFile), <<>>)
                  ELSE V18_Proceed(h, V23_Plan(r.content), said[h], <<>>)
    /\ UNCHANGED <<CONVERSATIONS, nmsgs, message, history, loadedAt, textResponse, mem>>
    /\ UNCHANGED brainVars
    /\ UNCHANGED schedVars

\* part_000:283-312: the tool function has answered.  The results of a
\* structured search_web go to a second completion; the text of any other
\* tool is the reply and is said, and after a structured call the JSON test
\* follows; then the reply is said (again).
V23_ToolReturn(h, out) ==
    /\ pc[h] = "tool"
    /\ out \in call[h].out
    /\ IF via[h] = "native" /\ call[h].fn = "searchWeb"
       THEN /\ modelCalls' = [modelCalls EXCEPT ![h] =
                   Append(@, [modelCalls[h][1] EXCEPT !.api = "followUp",
                                                        !.reply = Pending])]
            /\ call' = [call EXCEPT ![h].result = out]
            /\ pc' = [pc EXCEPT ![h] = "followUp"]
            /\ UNCHANGED <<finalReply, said, executed, via, memoryFile>>
       ELSE /\ finalReply' = [finalReply EXCEPT ![h] = out]
            /\ V18_Proceed(h,
                           IF via[h] = "native" THEN V23_Plan(out)
                           ELSE [kind |-> "say", via |-> None, f |-> NoFunction],
                           V18_safeSay(said[h], out, memoryFile), out)
            /\ UNCHANGED modelCalls
    /\ UNCHANGED <<CONVERSATIONS, heap, nmsgs, message, history, appended, loadedAt,
                   textResponse, mem>>
    /\ UNCHANGED brainVars
    /\ UNCHANGED schedVars

\* part_000:286-290 and 304-312: the second completion has answered or
\* failed; its text is the reply and goes to the JSON test.
V23_FollowUp(h, r) ==
    /\ pc[h] = "followUp"
    /\ modelCalls' = [modelCalls EXCEPT ![h][2].reply = r]
    /\ IF r.kind = "throw"
       THEN /\ V18_SystemError(h, said[h], ModelError)
            /\ UNCHANGED <<finalReply, executed>>
       ELSE /\ finalReply' = [finalReply EXCEPT ![h] = r.content]
            /\ V18_Proceed(h, V23_Plan(r.content), said[h], call[h].result)
    /\ UNCHANGED <<CONVERSATIONS, heap, nmsgs, message, history, appended, loadedAt,
                   textResponse, mem>>
    /\ UNCHANGED brainVars
    /\ UNCHANGED schedVars

\* part_000:312-314: the last safeSay has resolved; the assistant turn is
\* pushed and the array is stored.
V23_UpdateHistory(h) ==
    /\ pc[h] = "safeSay"
    /\ LET contextId == ContextId(message[h])
           turn == V18_AssistantTurn(finalReply[h])
           pushed == [heap EXCEPT ![history[h]] = Append(@, turn)]
           conv == [CONVERSATIONS EXCEPT ![contextId] = history[h]]
       IN /\ CONVERSATIONS' = conv
          /\ heap' = Collect(pushed, conv, history)
          /\ appended' = [appended EXCEPT ![contextId] = Append(@, turn)]
    /\ pc' = [pc EXCEPT ![h] = "done"]
    /\ UNCHANGED <<nmsgs, message, history, modelCalls, executed, said, loadedAt>>
    /\ UNCHANGED v9Vars
    /\ UNCHANGED brainVars
    /\ UNCHANGED v18Vars
    /\ UNCHANGED schedVars

\* part_000:320: the handler is through (also after its catch block).
V23_Done(h) ==
    /\ pc[h] = "done"
    /\ pc' = [pc EXCEPT ![h] = "idle"]
    /\ message' = [message EXCEPT ![h] = NoMessage]
    /\ history' = [history EXCEPT ![h] = Undefined]
    /\ heap' = Collect(heap, CONVERSATIONS, history')
    /\ modelCalls' = [modelCalls EXCEPT ![h] = <<>>]
    /\ executed' = [executed EXCEPT ![h] = <<>>]
    /\ said' = [said EXCEPT ![h] = <<>>]
    /\ loadedAt' = [loadedAt EXCEPT ![h] = 0]
    /\ finalReply' = [finalReply EXCEPT ![h] = <<>>]
    /\ call' = [call EXCEPT ![h] = NoCall]
    /\ mem' = [mem EXCEPT ![h] = {}]
    /\ via' = [via EXCEPT ![h] = None]
    /\ UNCHANGED <<CONVERSATIONS, nmsgs, appended, textResponse, memoryFile>>
    /\ UNCHANGED brainVars
    /\ UNCHANGED schedVars

\* ------------------------------------------------------------ specifications
\* Handlers of different messages interleave at their awaits.  The inputs: a
\* message in the channel or in its thread, a text or a failure or structured
\* calls as the first completion.
ConcMessages(n) == {m \in Messages(n) : ~m.image /\ m.subtype = None}

ConcResponses ==
    {Throw, Reply(<<"**Sure**">>, <<>>), Reply(<<>>, <<ToolCall("call_1", "get_prs", "{}")>>)}

Next ==
    \/ \E h \in Handlers : \E m \in ConcMessages(nmsgs + 1) :
          nmsgs < MaxMsgs /\ V3_Receive(h, m)
    \/ \E h \in Handlers : V3_CallBrain(h, "Mohab")
    \/ \E h \in Handlers : thinkAndAct_Request(h, <<>>)
    \/ \E h \in Handlers : \E r \in ConcResponses : thinkAndAct_FirstReply(h, r)
    \/ \E h \in Handlers : \E out \in ToolTexts(ConcResponses) : thinkAndAct_ToolReturn(h, out)
    \/ \E h \in Handlers : thinkAndAct_SecondReply(h, Reply(<<"Looks clear!">>, <<>>))
    \/ \E h \in Handlers : V3_UpdateHistory(h)
    \/ \E h \in Handlers : V3_Done(h)

Spec == Init /\ [][Next]_vars

\* One message at a time, every input.
NextOne ==
    \/ \E m \in Messages(nmsgs + 1) : nmsgs < MaxOneMsgs /\ V3_Receive("h1", m)
    \/ \E n \in {"Mohab", "Unknown User"} : V3_CallBrain("h1", n)
    \/ \E p \in {<<>>, <<"- an older exchange">>} : thinkAndAct_Request("h1", p)
    \/ \E r \in FirstResponses : thinkAndAct_FirstReply("h1", r)
    \/ \E out \in ToolTexts(FirstResponses) : thinkAndAct_ToolReturn("h1", out)
    \/ \E r \in SecondResponses : thinkAndAct_SecondReply("h1", r)
    \/ V3_UpdateHistory("h1")
    \/ V3_Done("h1")

SpecOne == Init /\ [][NextOne]_vars

\* One message at a time, many of them in one context: enough for the history
\* to outgrow its window.
SeqMessages(n) == {m \in Messages(n) : ~m.image /\ m.subtype = None /\ m.thread_ts = None}

SeqResponses ==
    {Reply(<<"**Sure**">>, <<>>), Reply(<<>>, <<ToolCall("call_1", "get_prs", "{}")>>)}

NextSeq ==
    \/ \E m \in SeqMessages(nmsgs + 1) : nmsgs < MaxSeqMsgs /\ V3_Receive("h1", m)
    \/ V3_CallBrain("h1", "Mohab")
    \/ thinkAndAct_Request("h1", <<>>)
    \/ \E r \in SeqResponses : thinkAndAct_FirstReply("h1", r)
    \/ thinkAndAct_ToolReturn("h1", <<"getPullRequests", ": ok">>)
    \/ thinkAndAct_SecondReply("h1", Reply(<<"Looks clear!">>, <<>>))
    \/ V3_UpdateHistory("h1")
    \/ V3_Done("h1")

SpecSeq == Init /\ [][NextSeq]_vars

\* Handlers on one context, enough messages for the history to reach its
\* window: the messages arrive one after the other's reply, but for the last
\* two, whose handlers interleave.  Every completion is a text, but for the
\* last message, which can lead to a tool call.
WinResponses ==
    IF nmsgs = MaxWinMsgs THEN SeqResponses ELSE {Reply(<<"**Sure**">>, <<>>)}

NextWin ==
    \/ \E h \in Handlers : \E m \in SeqMessages(nmsgs + 1) :
          /\ nmsgs < MaxWinMsgs
          /\ nmsgs < MaxWinMsgs - 2 => \A g \in Handlers : pc[g] = "idle"
          /\ V3_Receive(h, m)
    \/ \E h \in Handlers : V3_CallBrain(h, "Mohab")
    \/ \E h \in Handlers : thinkAndAct_Request(h, <<>>)
    \/ \E h \in Handlers : \E r \in WinResponses : thinkAndAct_FirstReply(h, r)
    \/ \E h \in Handlers : thinkAndAct_ToolReturn(h, <<"getPullRequests", ": ok">>)
    \/ \E h \in Handlers : thinkAndAct_SecondReply(h, Reply(<<"Looks clear!">>, <<>>))
    \/ \E h \in Handlers : V3_UpdateHistory(h)
    \/ \E h \in Handlers : V3_Done(h)

SpecWin == Init /\ [][NextWin]_vars

\* One message at a time, every completion, and every await answered in the
\* end: the user lookup, the memory recall, the model and the tools return or
\* fail, and a handler that can go on does.
NextFair ==
    \/ \E m \in ConcMessages(nmsgs + 1) : nmsgs < MaxFairMsgs /\ V3_Receive("h1", m)
    \/ V3_CallBrain("h1", "Mohab")
    \/ thinkAndAct_Request("h1", <<>>)
    \/ \E r \in FirstResponses : thinkAndAct_FirstReply("h1", r)
    \/ \E out \in ToolTexts(FirstResponses) : thinkAndAct_ToolReturn("h1", out)
    \/ \E r \in SecondResponses : thinkAndAct_SecondReply("h1", r)
    \/ V3_UpdateHistory("h1")
    \/ V3_Done("h1")

SpecFair ==
    /\ Init /\ [][NextFair]_vars
    /\ WF_vars(V3_CallBrain("h1", "Mohab"))
    /\ WF_vars(thinkAndAct_Request("h1", <<>>))
    /\ WF_vars(\E r \in FirstResponses : thinkAndAct_FirstReply("h1", r))
    /\ WF_vars(\E out \in ToolTexts(FirstResponses) : thinkAndAct_ToolReturn("h1", out))
    /\ WF_vars(\E r \in SecondResponses : thinkAndAct_SecondReply("h1", r))
    /\ WF_vars(V3_UpdateHistory("h1"))
    /\ WF_vars(V3_Done("h1"))

\* The monolithic handler, one message at a time.  A message is a chat line or
\* one of the two commands.
V9_Messages(n) ==
    [ts : {ToString(n)}, thread_ts : {None} \cup Threads, channel : Channels,
     subtype : {None, "bot_message"},
     text : {<<ToString(n)>>, <<"please ", "Set Report Channel">>, <<"run daily report">>},
     image : {FALSE}]

FunctionCall(name, args) == [name |-> name, args |-> args]

\* What chat.sendMessage can answer: a failure; a text (none, blank, plain); a
\* structured call (of a declared tool, of an unknown one, two of them, with a
\* text beside it); a text that spells a call.
V9_Responses ==
    {Throw,
     Reply(<<>>, <<>>), Reply(<<" ">>, <<>>), Reply(<<"On it, ", "Mohab">>, <<>>),
     Reply(<<>>, <<FunctionCall("get_prs", <<>>)>>),
     Reply(<<"Let me look.">>, <<FunctionCall("read_file", <<<<"src/app.js">>>>)>>),
     Reply(<<>>, <<FunctionCall("update_memory", <<<<"deadline">>, <<"Friday">>>>)>>),
     Reply(<<>>, <<FunctionCall("deploy", <<>>)>>),
     Reply(<<>>, <<FunctionCall("create_ticket", <<<<"Fix login bug">>>>),
                   FunctionCall("get_issues", <<>>)>>),
     Reply(<<"get_file_tree", "(", ")">>, <<>>),
     Reply(<<"Running ", "get_issues", " then ", "create_ticket", "(", "\"", "Triage", "\"", ")">>,
           <<>>),
     Reply(<<"read_file", " ", "(", "'", "src/app.js", "\"", " ", ")">>, <<>>),
     Reply(<<"read_file", "(", "path", ")">>, <<>>),
     Reply(<<"I will run ", "create_ticket", "(", "\"", "Fix login bug", "\"", ")">>, <<>>),
     Reply(<<"create_ticket", "(", "\"", "Fix the ", "read_file", " bug", "\"", ")">>, <<>>),
     Reply(<<"create_ticket", "(", "\"", "say ", "\"", "hi", "\"", " twice", "\"", ")">>, <<>>),
     Reply(<<"create_ticket", "(", "\"", "line one", "\n", "line two", "\"", ")">>, <<>>),
     Reply(<<"update_memory", "(", "'", "deadline", "'", ",", " ", "\"", "Friday", "\"", ")">>,
           <<>>),
     Reply(<<"update_memory", "(", "'", "deadline", "'", ")">>, <<>>),
     Reply(<<"Use ", "get_prs">>, <<>>),
     Reply(<<"get_prs", " or ", "get_file_tree">>, <<>>)}

NextV9 ==
    \/ \E m \in V9_Messages(nmsgs + 1) : nmsgs < MaxV9Msgs /\ V9_Receive("h1", m)
    \/ \E r \in V9_Responses : V9_Reply("h1", r)
    \/ \E out \in call["h1"].out : V9_ToolReturn("h1", out)
    \/ V9_UpdateHistory("h1")
    \/ \E prs \in getPullRequests : \E issues \in getIssues : \E files \in getFileTree :
          V9_ReportPrompt("h1", prs, issues, files)
    \/ \E r \in {Throw, Reply(<<"Mohab: review PR #7">>, <<>>)} : V9_ReportPost("h1", r)
    \/ V9_Done("h1")

SpecV9 == Init /\ [][NextV9]_vars

\* The Groq edition of the monolithic handler (src/unnamed/part_004), one
\* message at a time.  The inputs: a message, a command; whether users.info
\* answers; a failure, a text, a structured call, or a text that holds JSON or
\* spells a call, as the completion.
V18_Messages(n) ==
    [ts : {ToString(n)}, thread_ts : {None}, channel : Channels,
     subtype : {None, "bot_message"},
     text : {<<ToString(n)>>, <<"please ", "Set Report Channel">>, <<"run daily report">>},
     image : {FALSE}, user : {"U7"}]

\* {"name": "<name>", <members>}
JsonText(name, members) ==
    <<"{", KeyToken("name"), " ", "\"", name, "\"", ",", " ">> \o members \o <<"}">>

JsonMember(k, text) == <<KeyToken(k), " ", "\"">> \o text \o <<"\"">>

V18_Responses ==
    {Throw,
     Reply(<<>>, <<>>), Reply(<<" ">>, <<>>), Reply(<<"On it, ", "Ziad">>, <<>>),
     Reply(<<>>, <<ToolCall("call_1", "get_prs", "{}")>>),
     Reply(<<"Let me look.">>, <<ToolCall("call_1", "read_file", "{...}")>>),
     Reply(<<>>, <<ToolCall("call_1", "read_file", "{}")>>),
     Reply(<<>>, <<ToolCall("call_1", "read_file", "null")>>),
     Reply(<<>>, <<ToolCall("call_1", "read_file", "{oops")>>),
     Reply(<<>>, <<ToolCall("call_1", "create_ticket", "null")>>),
     Reply(<<>>, <<ToolCall("call_1", "update_memory", "{...}")>>),
     Reply(<<>>, <<ToolCall("call_1", "update_memory", "{}")>>),
     Reply(<<"Deploying">>, <<ToolCall("call_1", "deploy", "{...}")>>),
     Reply(<<>>, <<ToolCall("call_1", "create_ticket", "{...}"),
                   ToolCall("call_2", "get_issues", "{}")>>),
     Reply(JsonText("create_ticket",
                    <<KeyToken("parameters"), " ", "{">> \o JsonMember("summary", <<"Fix bug">>)
                    \o <<"}">>), <<>>),
     Reply(JsonText("update_memory",
                    <<KeyToken("parameters"), " ", "{">> \o JsonMember("key", <<"todo">>)
                    \o <<",", " ">> \o JsonMember("value", <<"call ", "get_issues">>)
                    \o <<"}">>), <<>>),
     Reply(JsonText("update_memory",
                    <<KeyToken("parameters"), " ", "null", ",", KeyToken("arguments"), "{">>
                    \o JsonMember("key", <<"deadline">>) \o <<",">>
                    \o JsonMember("value", <<"Friday">>) \o <<"}">>), <<>>),
     Reply(JsonText("update_memory",
                    JsonMember("key", <<"deadline">>) \o <<",">>
                    \o JsonMember("value", <<"Friday">>)), <<>>),
     Reply(JsonText("update_memory",
                    <<KeyToken("arguments"), "{">> \o JsonMember("key", <<"deadline">>)
                    \o <<"}">>), <<>>),
     Reply(JsonText("read_file",
                    <<KeyToken("parameters"), "{">> \o JsonMember("path", <<"src/app.js">>)
                    \o <<"}">>), <<>>),
     Reply(JsonText("get_prs", <<KeyToken("parameters"), "{", "}">>), <<>>),
     Reply(<<"{", KeyToken("name"), "\"", "create_ticket", "\"", ",">>, <<>>),
     Reply(<<"{", KeyToken("name"), "\"", "get_issues", "\"">>, <<>>),
     Reply(<<"get_file_tree", "(", ")">>, <<>>),
     Reply(<<"read_file", "(", "\"", "memory.json", "\"", ")">>, <<>>),
     Reply(<<"read_file", "(", "path", ")">>, <<>>),
     Reply(<<"I will run ", "create_ticket", "(", "\"", "Fix login bug", "\"", ")">>, <<>>),
     Reply(<<"update_memory", "(", "'", "deadline", "'", ",", " ", "\"", "Friday", "\"", ")">>,
           <<>>),
     Reply(<<"Use ", "get_prs">>, <<>>)}

NextV18 ==
    \/ \E m \in V18_Messages(nmsgs + 1) : nmsgs < MaxV18Msgs /\ V18_Receive("h1", m)
    \/ \E info \in UsersInfo : V18_Request("h1", info)
    \/ \E r \in V18_Responses : V18_Reply("h1", r)
    \/ \E out \in call["h1"].out : V18_ToolReturn("h1", out)
    \/ V18_UpdateHistory("h1")
    \/ \E prs \in getPullRequests : \E issues \in getIssues : \E files \in getFileTree :
          V18_ReportPrompt("h1", prs, issues, files)
    \/ \E r \in {Throw, Reply(<<"Mohab: review PR #7">>, <<>>)} : \E g \in Greetings :
          V18_ReportPost("h1", r, g)
    \/ V18_Done("h1")

SpecV18 == Init /\ [][NextV18]_vars

\* Two invocations of the Groq edition's handler at a time: a first-time user
\* is looked up while other messages, the command "set report channel" among
\* them, are handled.
RegMessages(n) ==
    {m \in V18_Messages(n) : m.subtype = None /\ m.text # <<"run daily report">>}

RegResponses ==
    {Reply(<<"On it, ", "Ziad">>, <<>>), Reply(<<>>, <<ToolCall("call_1", "get_prs", "{}")>>)}

NextV18Conc ==
    \/ \E h \in Handlers : \E m \in RegMessages(nmsgs + 1) :
          nmsgs < MaxRegMsgs /\ V18_Receive(h, m)
    \/ \E h \in Handlers : \E info \in UsersInfo : V18_Request(h, info)
    \/ \E h \in Handlers : \E r \in RegResponses : V18_Reply(h, r)
    \/ \E h \in Handlers : \E out \in call[h].out : V18_ToolReturn(h, out)
    \/ \E h \in Handlers : V18_UpdateHistory(h)
    \/ \E h \in Handlers : V18_Done(h)

SpecV18Conc == Init /\ [][NextV18Conc]_vars

\* ------------------------------------------------------- the schedule loop
\* The server's time goes on: the hours before 10:00, the minute 10:00, the
\* rest of the day, the next day.  The interval is 60 s, so the loop ticks
\* once in a minute at most.
Clock_Advance ==
    /\ clock' = CASE clock.time = "night" -> [clock EXCEPT !.time = "10:00"]
                  [] clock.time = "10:00" -> [clock EXCEPT !.time = "day"]
                  [] OTHER -> [day |-> clock.day + 1, time |-> "night"]
    /\ clock.time = "day" => clock.day < MaxDays
    /\ ticked' = FALSE
    /\ UNCHANGED <<lastReportDate, reports, posted>>
    /\ UNCHANGED <<CONVERSATIONS, heap, nmsgs, pc, message, history, modelCalls,
                   executed, said, appended, loadedAt>>
    /\ UNCHANGED brainVars
    /\ UNCHANGED v9Vars
    /\ UNCHANGED v18Vars

\* mem.report_channel, as read from memory.json: the channel, or None.
ReportChannel(file) ==
    IF \E p \in file : p[1] = <<"report_channel">> /\ Truthy(p[2])
    THEN (CHOOSE p \in file : p[1] = <<"report_channel">>)[2][1]
    ELSE None

\* src/index.js:314-320: a tick of setInterval.  At 10:00, when lastReportDate
\* is not today, memory.json is read, and with a report channel
\* generateDailyReport is called and awaits Promise.all.
Schedule_Tick ==
    /\ ~ticked
    /\ ticked' = TRUE
    /\ IF /\ clock.time = "10:00"
          /\ lastReportDate # clock.day
          /\ ReportChannel(memoryFile) # None
       THEN reports' = [reports EXCEPT ![clock.day] =
                [at |-> "Promise.all", channelId |-> ReportChannel(memoryFile)]]
       ELSE UNCHANGED reports
    /\ UNCHANGED <<clock, lastReportDate, posted>>
    /\ UNCHANGED <<CONVERSATIONS, heap, nmsgs, pc, message, history, modelCalls,
                   executed, said, appended, loadedAt>>
    /\ UNCHANGED brainVars
    /\ UNCHANGED v9Vars
    /\ UNCHANGED v18Vars

\* src/index.js:258-296: the three tool functions have answered (each catches
\* its own errors); the prompt is built and model.generateContent is awaited.
Schedule_Prompt(d) ==
    /\ reports[d].at = "Promise.all"
    /\ reports' = [reports EXCEPT ![d].at = "generateContent"]
    /\ UNCHANGED <<clock, ticked, lastReportDate, posted>>
    /\ UNCHANGED <<CONVERSATIONS, heap, nmsgs, pc, message, history, modelCalls,
                   executed, said, appended, loadedAt>>
    /\ UNCHANGED brainVars
    /\ UNCHANGED v9Vars
    /\ UNCHANGED v18Vars

\* src/index.js:296-310 and 321-322: generateContent has answered.  A failure
\* is caught, generateDailyReport returns false and the tick sets
\* lastReportDate to its own `now`; otherwise chat.postMessage is awaited.
Schedule_Post(d, r) ==
    /\ reports[d].at = "generateContent"
    /\ IF r.kind = "throw"
       THEN /\ reports' = [reports EXCEPT ![d].at = "returned"]
            /\ lastReportDate' = d
       ELSE /\ reports' = [reports EXCEPT ![d].at = "postMessage"]
            /\ UNCHANGED lastReportDate
    /\ UNCHANGED <<clock, ticked, posted>>
    /\ UNCHANGED <<CONVERSATIONS, heap, nmsgs, pc, message, history, modelCalls,
                   executed, said, appended, loadedAt>>
    /\ UNCHANGED brainVars
    /\ UNCHANGED v9Vars
    /\ UNCHANGED v18Vars

\* src/index.js:299-310 and 321-322: chat.postMessage has answered: the report
\* is in the channel, or the call has failed; generateDailyReport returns and
\* the tick sets lastReportDate to its own `now`.
Schedule_Return(d, ok) ==
    /\ reports[d].at = "postMessage"
    /\ reports' = [reports EXCEPT ![d].at = "returned"]
    /\ posted' = IF ok
                 THEN Append(posted, [channel |-> reports[d].channelId, day |-> clock.day,
                                      tick |-> d])
                 ELSE posted
    /\ lastReportDate' = d
    /\ UNCHANGED <<clock, ticked>>
    /\ UNCHANGED <<CONVERSATIONS, heap, nmsgs, pc, message, history, modelCalls,
                   executed, said, appended, loadedAt>>
    /\ UNCHANGED brainVars
    /\ UNCHANGED v9Vars
    /\ UNCHANGED v18Vars

\* The schedule loop, with a handler that takes the command "set report
\* channel".
SchedMessages(n) ==
    {m \in V9_Messages(n) :
        m.subtype = None /\ m.thread_ts = None /\ m.text = <<"please ", "Set Report Channel">>}

NextSched ==
    \/ \E m \in SchedMessages(nmsgs + 1) : nmsgs < MaxSchedMsgs /\ V9_Receive("h1", m)
    \/ V9_Done("h1")
    \/ Clock_Advance
    \/ Schedule_Tick
    \/ \E d \in Days : Schedule_Prompt(d)
    \/ \E d \in Days : \E r \in {Throw, Reply(<<"Mohab: review PR #7">>, <<>>)} :
          Schedule_Post(d, r)
    \/ \E d \in Days : \E ok \in BOOLEAN : Schedule_Return(d, ok)

SpecSched == Init /\ [][NextSched]_vars

\* The autonomous edition, one invocation at a time: a first message and a
\* second one in the same context.
V23_Messages(n) == {m \in V18_Messages(n) : m.text # <<"run daily report">>}

V23_Responses ==
    {Throw,
     Reply(<<>>, <<>>), Reply(<<"On it, ", "Ziad">>, <<>>),
     Reply(<<>>, <<ToolCall("call_1", "get_prs", "{}")>>),
     Reply(<<>>, <<ToolCall("call_1", "read_file", "{oops")>>),
     Reply(<<>>, <<ToolCall("call_1", "read_file", "null")>>),
     Reply(<<>>, <<ToolCall("call_1", "read_file", "{}")>>),
     Reply(<<>>, <<ToolCall("call_1", "search_web", "{...}")>>),
     Reply(<<"Deploying">>, <<ToolCall("call_1", "deploy", "{...}")>>),
     Reply(JsonText("update_memory",
                    <<KeyToken("parameters"), "{">> \o JsonMember("key", <<"deadline">>)
                    \o <<",">> \o JsonMember("value", <<"Friday">>) \o <<"}">>), <<>>),
     Reply(JsonText("search_web",
                    <<KeyToken("arguments"), "{">> \o JsonMember("query", <<"HL7 FHIR">>)
                    \o <<"}">>), <<>>),
     Reply(<<"{", KeyToken("name"), "\"", "search_web", "\"", ",">>, <<>>)}

NextV23 ==
    \/ \E m \in V23_Messages(nmsgs + 1) : nmsgs < MaxV23Msgs /\ V23_Receive("h1", m)
    \/ \E info \in UsersInfo : V23_Request("h1", info)
    \/ \E r \in V23_Responses : V23_Reply("h1", r)
    \/ \E out \in call["h1"].out : V23_ToolReturn("h1", out)
    \/ \E r \in {Throw, Reply(<<"FHIR is the standard.">>, <<>>)} : V23_FollowUp("h1", r)
    \/ V23_UpdateHistory("h1")
    \/ V23_Done("h1")

SpecV23 == Init /\ [][NextV23]_vars

\* ===================================================================== claims
InFlight == {"getUserName", "recallMemory", "firstCall", "executeTool", "secondCall", "returned"}

\* The context key the claims speak of: the thread if the message is in one,
\* else the channel.
KeyOf(m) == IF m.thread_ts # None THEN m.thread_ts ELSE m.channel

UserTurn(h) == [role |-> "user", content |-> userInput[h]]
AssistantTurn(h) == [role |-> "assistant", content |-> response[h]]

Suffix(seq, n) == SubSeq(seq, Len(seq) - n + 1, Len(seq))

\* C11: with messages handled one at a time, the history stored for a key is
\* at every moment the most recent turns pushed for that key, in the order
\* they were pushed: whatever was dropped was older than everything kept.
C11_StoreIsSuffix ==
    \A k \in Keys :
        /\ Len(Stored(k)) <= Len(appended[k])
        /\ Stored(k) = Suffix(appended[k], Len(Stored(k)))

\* C11 witness: a twelfth call has been stored, the two oldest turns are gone.
C11_Witness ==
    \E k \in Keys :
        /\ Len(appended[k]) = 2 * 12
        /\ Stored(k) = SubSeq(appended[k], 3, 2 * 12)
        /\ Stored(k)[1] # appended[k][1]

\* C12: every turn held in the store has role user or assistant and is a
\* plain { role, content } record (no system prompt, no tool-call turn, no
\* tool-result turn); every model request starts with the system prompt, which
\* occurs nowhere else in the request.
C12_OnlyDialogueStored ==
    /\ \A k \in Keys : \A i \in 1..Len(Stored(k)) :
          /\ Stored(k)[i].role \in {"user", "assistant"}
          /\ DOMAIN Stored(k)[i] = {"role", "content"}
    /\ \A h \in Handlers : \A c \in 1..Len(modelCalls[h]) :
          LET request == modelCalls[h][c].messages
          IN /\ request[1] = [role |-> "system", content |-> SYSTEM_PROMPT]
             /\ \A i \in 2..Len(request) : request[i].role # "system"

\* C12 witness: a call that ran a tool has been stored on top of an earlier
\* exchange; its second request carried tool turns, the store does not.
C12_Witness ==
    \E h \in Handlers :
        /\ pc[h] = "done"
        /\ Len(modelCalls[h]) = 2
        /\ \E i \in 1..Len(modelCalls[h][2].messages) : modelCalls[h][2].messages[i].role = "tool"
        /\ Len(modelCalls[h][1].messages) = 4
        /\ Len(Stored(KeyOf(message[h]))) = 4

\* C13 as stated: the first model request of a call is one system message,
\* then turns of the context's history, at most 20 of them and in the order
\* they were pushed, then one user turn with the new input; the bound holds
\* however the calls on the context interleave.
C13_RequestAtMost20 ==
    \A h \in Handlers :
        modelCalls[h] # <<>> =>
            LET request == modelCalls[h][1].messages
                given == SubSeq(request, 2, Len(request) - 1)
                pushed == appended[KeyOf(message[h])]
            IN /\ request[1] = [role |-> "system", content |-> SYSTEM_PROMPT]
               /\ request[Len(request)].role = "user"
               /\ Len(given) <= 20
               /\ \E i \in 0..Len(pushed) : given = SubSeq(pushed, i + 1, i + Len(given))

\* The paths of one thinkAndAct call, read from what the call has done.
\* TOOL_BRANCH -> TOOL_EXECUTED -> FINAL_MODEL_CALL -> DONE
ToolPath(h) ==
    /\ Len(modelCalls[h]) = 2
    /\ modelCalls[h][1].reply.kind = "message"
    /\ modelCalls[h][1].reply.tool_calls # <<>>
    /\ Len(toolResults[h]) = Len(modelCalls[h][1].reply.tool_calls)

\* FAILSAFE_CHECK -> PLAIN_TEXT -> DONE
TextPath(h) ==
    /\ Len(modelCalls[h]) = 1
    /\ modelCalls[h][1].reply.kind = "message"
    /\ modelCalls[h][1].reply.tool_calls = <<>>
    /\ executed[h] = <<>> /\ toolResults[h] = <<>>

\* MODEL_ERROR -> DONE
ErrorPath(h) ==
    /\ Len(modelCalls[h]) = 1
    /\ modelCalls[h][1].reply.kind = "throw"
    /\ executed[h] = <<>> /\ toolResults[h] = <<>>
    /\ response[h] = <<"Brain Error: ">> \o ModelError

\* TOOL_BRANCH -> DONE through the catch block: calling a tool has thrown.
ToolErrorPath(h) ==
    /\ Len(modelCalls[h]) = 1
    /\ modelCalls[h][1].reply.kind = "message"
    /\ modelCalls[h][1].reply.tool_calls # <<>>
    /\ Len(toolResults[h]) < Len(modelCalls[h][1].reply.tool_calls)
    /\ response[h] = <<"Brain Error: ">> \o NullTypeError

C2_NoLostUpdate ==
    \A h, g \in Handlers :
        (/\ h # g
         /\ pc[h] = "done" /\ pc[g] = "done"
         /\ KeyOf(message[h]) = KeyOf(message[g])
         /\ loadedAt[h] = loadedAt[g]) =>
            \A t \in {UserTurn(h), AssistantTurn(h), UserTurn(g), AssistantTurn(g)} :
                \E i \in 1..Len(Stored(KeyOf(message[h]))) : Stored(KeyOf(message[h]))[i] = t

\* C3: a step that completes a call appends to the stored history of the call's
\* context exactly its user turn followed by an assistant turn holding the
\* (non-empty) text thinkAndAct returned; no other step changes a stored history.
C3_OneAppendPair ==
    [][\A k \in Keys :
          LET finishing == {h \in Handlers :
                               pc[h] = "returned" /\ pc'[h] = "done" /\ KeyOf(message[h]) = k}
          IN IF finishing = {}
             THEN Stored(k)' = Stored(k)
             ELSE \E h \in finishing :
                     /\ Truthy(response[h])
                     /\ Stored(k)' = heap[history[h]] \o <<UserTurn(h), AssistantTurn(h)>>]_vars

\* C3 witness: a call that went through the tool branch has completed, and the
\* store ends with its two turns.
C3_Witness ==
    \E h \in Handlers :
        /\ pc[h] = "done"
        /\ Len(modelCalls[h]) = 2
        /\ Len(Stored(KeyOf(message[h]))) = 4
        /\ SubSeq(Stored(KeyOf(message[h])), 3, 4) = <<UserTurn(h), AssistantTurn(h)>>

\* C4: when a model call of a respond call has failed, thinkAndAct has returned
\* the error marker followed by the error message, and the store holds the
\* history the call was given followed by one user turn and one assistant turn
\* with that error string.
C4_ModelFailureIsolated ==
    \A h \in Handlers :
        (/\ pc[h] = "done"
         /\ \E i \in 1..Len(modelCalls[h]) : modelCalls[h][i].reply.kind = "throw") =>
            LET request == modelCalls[h][1].messages
                given == SubSeq(request, 2, Len(request) - 1)
            IN /\ response[h] = <<"Brain Error: ">> \o ModelError
               /\ Stored(KeyOf(message[h])) =
                     given \o <<UserTurn(h),
                                [role |-> "assistant",
                                 content |-> <<"Brain Error: ">> \o ModelError]>>

\* C4 witness: the second model call of a completed call has failed.
C4_Witness ==
    \E h \in Handlers :
        /\ pc[h] = "done"
        /\ Len(modelCalls[h]) = 2
        /\ modelCalls[h][2].reply.kind = "throw"
        /\ Len(Stored(KeyOf(message[h]))) >= 2

FunctionOf(name) ==
    CASE name = "get_prs" -> "getPullRequests"
      [] name = "get_issues" -> "getIssues"
      [] name = "get_file_tree" -> "getFileTree"
      [] name = "read_file" -> "readFileContent"
      [] name = "create_ticket" -> "createJiraTask"
      [] name = "update_memory" -> "updateProjectMemory"
      [] OTHER -> None

\* The text create_ticket("Fix login bug"), after a few words.
SpelledCall == <<"I will run ", "create_ticket", "(", "\"", "Fix login bug", "\"", ")">>

\* C6: when the response to a message carries no structured call and the text
\* failsafes take its text for a call of a tool, with the arguments extracted,
\* then once the message is handled that tool's function has been called, once
\* and with those arguments (createJiraTask with "Fix login bug" for the text
\* create_ticket("Fix login bug")), the last turn stored for the context is a
\* model turn whose text is exactly what the function returned, and the model
\* has been called once.
C6_FailsafeRunsTool ==
    \A h \in Handlers :
        (/\ pc[h] = "done"
         /\ modelCalls[h] # <<>>
         /\ modelCalls[h][1].api = "sendMessage"
         /\ modelCalls[h][1].reply.kind = "message"
         /\ modelCalls[h][1].reply.tool_calls = <<>>
         /\ Failsafe(modelCalls[h][1].reply.content).hit) =>
            LET text == modelCalls[h][1].reply.content
                found == Failsafe(text)
                stored == Stored(KeyOf(message[h]))
            IN /\ executed[h] = <<[fn |-> FunctionOf(found.name), args |-> found.args]>>
               /\ text = SpelledCall =>
                     executed[h] = <<[fn |-> "createJiraTask", args |-> <<<<"Fix login bug">>>>]>>
               /\ call[h].fn = FunctionOf(found.name)
               /\ call[h].result # <<>>
               /\ finalReply[h] = call[h].result
               /\ stored # <<>>
               /\ stored[Len(stored)] = [role |-> "model", parts |-> call[h].result]
               /\ Len(modelCalls[h]) = 1

\* C6 witness: the response was the text create_ticket("Fix login bug"), the
\* ticket function has answered and its answer is the last stored turn.
C6_Witness ==
    \E h \in Handlers :
        /\ pc[h] = "done"
        /\ modelCalls[h] # <<>>
        /\ modelCalls[h][1].reply = Reply(SpelledCall, <<>>)
        /\ executed[h] = <<[fn |-> "createJiraTask", args |-> <<<<"Fix login bug">>>>]>>
        /\ call[h].result \in createJiraTask(<<"Fix login bug">>)
        /\ Stored(KeyOf(message[h]))[Len(Stored(KeyOf(message[h])))].parts = call[h].result

\* The declared tools whose name occurs in a text.
Fingerprints(text) ==
    {i \in 1..Len(functionDeclarations) : Includes(text, functionDeclarations[i])}

\* A handled message of the monolithic handler whose response was a text
\* without a structured call.
TextAnswered(h) ==
    /\ pc[h] = "done"
    /\ modelCalls[h] # <<>>
    /\ modelCalls[h][1].api = "sendMessage"
    /\ modelCalls[h][1].reply.kind = "message"
    /\ modelCalls[h][1].reply.tool_calls = <<>>

FailsafeOrder ==
    <<"get_file_tree", "get_issues", "read_file", "create_ticket", "update_memory", "get_prs">>

FirstTested(text) ==
    FailsafeOrder[Min({i \in 1..Len(FailsafeOrder) : Includes(text, FailsafeOrder[i])})]

QuotedArgs(name) ==
    CASE name \in {"read_file", "create_ticket"} -> 1
      [] name = "update_memory" -> 2
      [] OTHER -> 0

\* The text of a response takes the branch of a tool with arguments, and the
\* quoted arguments are not found in it.
ArgsNotFound(text) ==
    /\ Fingerprints(text) # {}
    /\ QuotedArgs(FirstTested(text)) > 0
    /\ ~Match(text, FirstTested(text), QuotedArgs(FirstTested(text))).ok

\* C18: when the text of a response takes the failsafe branch of a tool that
\* needs arguments and the quoted arguments cannot be extracted from it, no
\* tool function is called, the only thing said is the text of the model,
\* unchanged, and that text is the final reply that is stored.
C18_NoArgsNoTool ==
    \A h \in Handlers :
        (TextAnswered(h) /\ ArgsNotFound(modelCalls[h][1].reply.content)) =>
            LET text == modelCalls[h][1].reply.content
                stored == Stored(KeyOf(message[h]))
            IN /\ executed[h] = <<>>
               /\ call[h] = NoCall
               /\ said[h] = <<[text |-> text, thread_ts |-> None]>>
               /\ finalReply[h] = text
               /\ stored # <<>>
               /\ stored[Len(stored)] = [role |-> "model", parts |-> text]
               /\ Len(modelCalls[h]) = 1

\* C18 witness: the response was read_file(path), without quotes; the message
\* is handled and the text has been said.
C18_Witness ==
    \E h \in Handlers :
        /\ TextAnswered(h)
        /\ modelCalls[h][1].reply.content = <<"read_file", "(", "path", ")">>
        /\ ArgsNotFound(modelCalls[h][1].reply.content)
        /\ executed[h] = <<>>
        /\ said[h] = <<[text |-> <<"read_file", "(", "path", ")">>, thread_ts |-> None]>>

\* The Groq edition has a completion for the message: a text without a
\* structured call.
PlainTextOutput(h) ==
    /\ modelCalls[h] # <<>>
    /\ modelCalls[h][1].api = "create"
    /\ modelCalls[h][1].reply.kind = "message"
    /\ modelCalls[h][1].reply.tool_calls = <<>>

\* C15: for one text of the model the failsafes call at most one tool
\* function, the test for JSON (a text that starts with {) included.
C15_AtMostOneTool ==
    \A h \in Handlers : PlainTextOutput(h) => Len(executed[h]) <= 1

\* The text {"name": "create_ticket", "parameters": {"summary": "Fix bug"}}.
TicketJson ==
    JsonText("create_ticket",
             <<KeyToken("parameters"), " ", "{">> \o JsonMember("summary", <<"Fix bug">>)
             \o <<"}">>)

\* The Groq edition has handled a message whose completion was a text that
\* starts with {, holds "name": and parses as JSON, the name being a string.
JsonAnswered(h) ==
    /\ PlainTextOutput(h)
    /\ pc[h] = "done"
    /\ Trim(modelCalls[h][1].reply.content) # <<>>
    /\ Trim(modelCalls[h][1].reply.content)[1] = "{"
    /\ Includes(modelCalls[h][1].reply.content, KeyToken("name"))
    /\ JSONparseText(modelCalls[h][1].reply.content).ok
    /\ Get(JSONparseText(modelCalls[h][1].reply.content).value, "name").type = "string"

NameIn(text) == Get(JSONparseText(text).value, "name").text

BrokenJson(h) ==
    /\ PlainTextOutput(h)
    /\ pc[h] = "done"
    /\ Trim(modelCalls[h][1].reply.content) # <<>>
    /\ Trim(modelCalls[h][1].reply.content)[1] = "{"
    /\ Includes(modelCalls[h][1].reply.content, KeyToken("name"))
    /\ ~JSONparseText(modelCalls[h][1].reply.content).ok

\* The handler went through its catch block: it has said a System Error.
Raised(h) == \E i \in 1..Len(said[h]) : said[h][i].text[1] = "System Error: "

\* C22 as stated: for every text of the model the failsafes complete without
\* an exception, and a text that starts with { and does not parse is no match:
\* no tool function is called and the text itself is the final text, said once.
C22_ParseFailureKeepsText ==
    \A h \in Handlers :
        /\ (PlainTextOutput(h) /\ pc[h] = "done") => ~Raised(h)
        /\ BrokenJson(h) =>
              /\ executed[h] = <<>>
              /\ finalReply[h] = modelCalls[h][1].reply.content
              /\ said[h] = <<[text |-> V18_formatForSlack(modelCalls[h][1].reply.content,
                                                          memoryFile),
                              thread_ts |-> None]>>

\* C22 as amended: for every text of the model the failsafes complete without
\* an exception, and a text that starts with { and does not parse is no match
\* for the JSON test: the JSON test calls nothing and says nothing, and the
\* text goes on to the tests of the names as it is.  When one of them finds a
\* call, the function of that tool is the only one called; when none does, no
\* tool function is called and the text itself is the final text, said once.
C22_ParseFailureNoJsonMatch ==
    \A h \in Handlers :
        /\ (PlainTextOutput(h) /\ pc[h] = "done") => ~Raised(h)
        /\ BrokenJson(h) =>
              LET text == modelCalls[h][1].reply.content
                  found == V18_Failsafe(text)
              IN /\ \A i \in 1..Len(said[h]) :
                        said[h][i].text \notin {<<"(Auto-Fix) Updating Memory...">>,
                                                <<"(Auto-Fix) Creating Ticket...">>}
                 /\ IF found.hit
                    THEN /\ Len(executed[h]) = 1
                         /\ executed[h][1].fn = V18_FailsafeFound(found, memoryFile).fn
                         /\ executed[h][1].args = V18_FailsafeFound(found, memoryFile).args
                    ELSE /\ executed[h] = <<>>
                         /\ finalReply[h] = text
                         /\ said[h] = <<[text |-> V18_formatForSlack(text, memoryFile),
                                         thread_ts |-> None]>>

\* C22 witness: the completion was the unterminated text {"name":"create_ticket",
\* and the message is handled: the text was said as it is and nothing was called.
C22_Witness ==
    \E h \in Handlers :
        /\ BrokenJson(h)
        /\ modelCalls[h][1].reply.content
               = <<"{", KeyToken("name"), "\"", "create_ticket", "\"", ",">>
        /\ executed[h] = <<>>
        /\ Len(said[h]) = 1
        /\ finalReply[h] = modelCalls[h][1].reply.content

\* The deliveries of the final reply of the message a handler works on: what
\* it has said that is the text of `finalReply` (the progress notices are
\* other texts).
FinalDeliveries(h) ==
    {i \in 1..Len(said[h]) : said[h][i].text = V18_formatForSlack(finalReply[h], memoryFile)}

\* C27: for one message the final reply is delivered to the chat at most once,
\* whether it comes from a structured call, from the JSON test, from the tests
\* of the names or is the plain text of the model.
C27_FinalReplyOnce ==
    \A h \in Handlers :
        (pc[h] = "done" /\ modelCalls[h] # <<>> /\ modelCalls[h][1].api = "create"
         /\ Truthy(finalReply[h]))
            => Cardinality(FinalDeliveries(h)) <= 1

\* C28: a first-time registration loses no value of memory.json.  When
\* getOrRegisterUser completes, every key that was written to the file since
\* the function read it (by updateProjectMemory, while users.info was awaited)
\* is still in the file with its value.
C28_NoLostMemoryWrite ==
    [][\A h \in Handlers :
          (pc[h] = "getOrRegisterUser" /\ pc'[h] # pc[h]) =>
              \A p \in memoryFile \ mem[h] : p \in memoryFile'
      ]_vars

\* C29: the schedule loop posts at most one scheduled report on a calendar
\* day, however its ticks fall and however long the generation of a report
\* takes; a tick that finds no report channel starts no report, posts nothing
\* and leaves lastReportDate as it is.
C29_OneReportPerDay ==
    /\ [](\A d \in Days : Cardinality({i \in 1..Len(posted) : posted[i].day = d}) <= 1)
    /\ [][(~ticked /\ ticked' /\ ReportChannel(memoryFile) = None) =>
             /\ reports' = reports
             /\ posted' = posted
             /\ lastReportDate' = lastReportDate
         ]_vars

\* C26: when the handling of a message in the autonomous edition ends in the
\* catch block (a System Error is said), the history stored for the context is
\* what it was when the message arrived: the step that ends in the catch block
\* leaves every stored history as it was, and afterwards the last turn stored
\* for the context is not a user turn without an answer.
C26_CatchLeavesStore ==
    /\ [](\A h \in Handlers :
             (pc[h] = "done" /\ Raised(h) /\ modelCalls[h] # <<>>) =>
                 LET stored == Stored(ContextId(message[h]))
                 IN stored # <<>> => stored[Len(stored)].role = "assistant")
    /\ [][\A h \in Handlers :
             (~Raised(h) /\ Raised(h)') => \A k \in Keys : Stored(k)' = Stored(k)
         ]_vars

\* The executors the calls of a response lead to, in order.
RECURSIVE ExecutorsOf(_)
ExecutorsOf(calls) ==
    IF calls = <<>> THEN <<>>
    ELSE (IF Invocation(Head(calls)).fn # None THEN <<Invocation(Head(calls)).fn>> ELSE <<>>)
         \o ExecutorsOf(Tail(calls))

\* thinkAndAct has returned for a response with structured calls of which one
\* has an argument payload that does not parse (and none parses to null).
MalformedArgs(h) ==
    /\ pc[h] = "returned"
    /\ modelCalls[h] # <<>>
    /\ modelCalls[h][1].reply.kind = "message"
    /\ \E i \in 1..Len(modelCalls[h][1].reply.tool_calls) :
          ~JSONparse(modelCalls[h][1].reply.tool_calls[i].arguments).ok
    /\ \A i \in 1..Len(modelCalls[h][1].reply.tool_calls) :
          JSONparse(modelCalls[h][1].reply.tool_calls[i].arguments).ok =>
              JSONparse(modelCalls[h][1].reply.tool_calls[i].arguments).value # "NULL"

UnknownCalled(h) ==
    /\ modelCalls[h] # <<>>
    /\ modelCalls[h][1].reply.kind = "message"
    /\ modelCalls[h][1].reply.tool_calls # <<>>
    /\ \A i \in 1..Len(modelCalls[h][1].reply.tool_calls) :
          modelCalls[h][1].reply.tool_calls[i].name \notin ToolNames

\* C20: a structured call that names a tool without an executor invokes no
\* executor and does not throw: the text "Unknown tool: <name>" is the result
\* of the call and is handed to the second completion, thinkAndAct returns a
\* text that is not empty (not the text of a caught TypeError), and the
\* handler appends the exchange to the history.
C20_UnknownToolSurfaced ==
    \A h \in Handlers :
        (UnknownCalled(h) /\ pc[h] \in {"returned", "done"}) =>
            LET calls == modelCalls[h][1].reply.tool_calls
                stored == Stored(KeyOf(message[h]))
            IN /\ executed[h] = <<>>
               /\ Len(toolResults[h]) = Len(calls)
               /\ \A i \in 1..Len(calls) :
                     toolResults[h][i] =
                         [role |-> "tool", tool_call_id |-> calls[i].id,
                          name |-> calls[i].name,
                          content |-> <<"Unknown tool: ", calls[i].name>>]
               /\ Len(modelCalls[h]) = 2
               /\ \A i \in 1..Len(calls) :
                     modelCalls[h][2].messages[Len(modelCalls[h][2].messages) - Len(calls) + i]
                         = toolResults[h][i]
               /\ response[h] # <<>>
               /\ response[h] # BrainError(NullTypeError)
               /\ pc[h] = "done" =>
                     /\ Len(stored) >= 2
                     /\ SubSeq(stored, Len(stored) - 1, Len(stored))
                            = NewTurns(userInput[h], response[h])

\* C20 witness: the response called the tool deploy; the message is handled
\* and the exchange is stored.
C20_Witness ==
    \E h \in Handlers :
        /\ UnknownCalled(h)
        /\ pc[h] = "done"
        /\ modelCalls[h][1].reply.tool_calls[1].name = "deploy"
        /\ toolResults[h][1].content = <<"Unknown tool: ", "deploy">>
        /\ executed[h] = <<>>

\* C21: tools are never retried.  Within one call of thinkAndAct the executors
\* invoked so far are, in order, those of the first structured calls of the
\* response, one invocation for one call, also after an executor has reported a
\* failure; each result is a text its own call's executor returned, and the
\* failure text is handed to the second completion as the result of its call.
C21_NoRetry ==
    \A h \in Handlers :
        (modelCalls[h] # <<>> /\ modelCalls[h][1].reply.kind = "message") =>
            LET calls == modelCalls[h][1].reply.tool_calls
                done == Len(toolResults[h])
            IN /\ Len(executed[h]) <= Len(calls)
               /\ done <= Len(calls)
               /\ \E n \in done..Len(calls) :
                     executed[h] = ExecutorsOf(SubSeq(calls, 1, n))
               /\ \A i \in 1..done :
                     /\ toolResults[h][i].tool_call_id = calls[i].id
                     /\ toolResults[h][i].content \in Invocation(calls[i]).out
               /\ Len(modelCalls[h]) = 2 =>
                     /\ done = Len(calls)
                     /\ executed[h] = ExecutorsOf(calls)
                     /\ \A i \in 1..done :
                           modelCalls[h][2].messages[Len(modelCalls[h][2].messages) - done + i]
                               = toolResults[h][i]

\* C21 witness: the executor of the only call reported a failure; it was
\* invoked once and its failure text went to the second completion.
C21_Witness ==
    \E h \in Handlers :
        /\ Len(modelCalls[h]) = 2
        /\ modelCalls[h][1].reply.tool_calls = <<ToolCall("call_1", "get_prs", "{}")>>
        /\ executed[h] = <<"getPullRequests">>
        /\ toolResults[h][1].content = <<"getPullRequests", ": failed">>
        /\ modelCalls[h][2].messages[Len(modelCalls[h][2].messages)].content
               = <<"getPullRequests", ": failed">>

\* C23: from the load of the history to the final append a call does not touch
\* the store.  A step a handler takes between the load and the return of
\* thinkAndAct changes no array and no entry of CONVERSATIONS (so the array
\* `history` refers to is as thinkAndAct found it), the load itself leaves
\* every stored history as it is, and no turn of the store is a tool-call
\* turn or a tool-result turn: those exist in the requests only.
C23_InFlightFrame ==
    [][\A h \in Handlers :
          /\ (/\ pc[h] \in {"getUserName", "recallMemory", "firstCall",
                            "executeTool", "secondCall"}
              /\ (pc'[h] # pc[h] \/ toolResults'[h] # toolResults[h]))
                => /\ CONVERSATIONS' = CONVERSATIONS
                   /\ heap' = heap
          /\ (pc[h] = "idle" /\ pc'[h] = "getUserName")
                => /\ CONVERSATIONS' = CONVERSATIONS
                   /\ \A k \in Keys : Stored(k)' = Stored(k)
          /\ \A k \in Keys : \A i \in 1..Len(Stored(k)') :
                /\ Stored(k)'[i].role \in {"user", "assistant"}
                /\ "tool_calls" \notin DOMAIN Stored(k)'[i]
      ]_vars

\* C23 witness: a call on a context with a stored exchange has run a tool and
\* issued its second request, which carries the tool-call turn and the tool
\* result; the store still holds the two turns it held at the load.
C23_Witness ==
    \E h \in Handlers :
        /\ pc[h] = "secondCall"
        /\ Len(modelCalls[h]) = 2
        /\ \E i \in 1..Len(modelCalls[h][2].messages) :
              "tool_calls" \in DOMAIN modelCalls[h][2].messages[i]
        /\ \E i \in 1..Len(modelCalls[h][2].messages) :
              modelCalls[h][2].messages[i].role = "tool"
        /\ CONVERSATIONS[KeyOf(message[h])] = history[h]
        /\ Len(heap[history[h]]) = 2
        /\ loadedAt[h] = 2

Alternates(turns) ==
    /\ Len(turns) % 2 = 0
    /\ \A i \in 1..Len(turns) :
          turns[i].role = (IF i % 2 = 1 THEN "user" ELSE "assistant")

\* C25: in the handler that calls thinkAndAct the history stored for a
\* context has, after every step of every handler, an even number of turns that
\* alternate between user and assistant, starting with a user turn; so has the
\* array a handler holds after the load, truncated to the last 20 turns or not,
\* however the handlers on a context interleave.
C25_StoreAlternates ==
    /\ \A k \in Keys : Alternates(Stored(k))
    /\ \A h \in Handlers : history[h] # Undefined => Alternates(heap[history[h]])

\* C25 witness: twelve exchanges on one context; the last load came after the
\* eleventh exchange was stored and dropped the two oldest turns, and the store
\* holds 22 turns.
C25_Witness ==
    \E k \in Keys : \E h \in Handlers :
        /\ Len(appended[k]) = 2 * 12
        /\ Len(Stored(k)) = 22
        /\ Stored(k)[1].role = "user" /\ Stored(k)[22].role = "assistant"
        /\ pc[h] = "done" /\ loadedAt[h] = 22

C8_NonEmptyReturn ==
    \A h \in Handlers : pc[h] \in {"returned", "done"} => response[h] # <<>>

\* C8 witness: the first completion had neither text nor calls, and thinkAndAct
\* has returned.
C8_Witness ==
    \E h \in Handlers :
        /\ pc[h] = "returned"
        /\ modelCalls[h][1].reply = Reply(<<>>, <<>>)

\* What a handler has delivered apart from its progress notice.
FinalReplies(h) ==
    {i \in 1..Len(said[h]) : said[h][i].text # <<"Analyzing image...">>}

\* C9 as stated: every handled message gets a final reply: when the handler is
\* through, a text that is not blank has been delivered.
C9_AlwaysReplies ==
    \A h \in Handlers :
        pc[h] = "done" =>
            \E i \in FinalReplies(h) : Trim(said[h][i].text) # <<>>

\* C10: a step changes the stored history of a key only when it completes a call
\* whose message has that key, and the array a call works on is never the one
\* stored under another key.
C10_OtherContextsUntouched ==
    [][/\ \A k \in Keys :
            (Stored(k)' # Stored(k) \/ CONVERSATIONS'[k] # CONVERSATIONS[k]) =>
                \E h \in Handlers :
                    pc[h] = "returned" /\ pc'[h] = "done" /\ KeyOf(message[h]) = k
       /\ \A h \in Handlers : \A k \in Keys :
            (pc'[h] \in InFlight /\ k # KeyOf(message'[h])) =>
                history'[h] # CONVERSATIONS'[k]]_vars

\* C10 witness: a call for one context has completed while a call for another
\* context, which has a stored history too, is in flight.
C10_Witness ==
    \E h, g \in Handlers :
        /\ pc[h] = "done" /\ pc[g] \in InFlight
        /\ KeyOf(message[h]) # KeyOf(message[g])
        /\ Stored(KeyOf(message[h])) # <<>>
        /\ Stored(KeyOf(message[g])) # <<>>

====
